---- MODULE Spec2Model ----
(***************************************************************************)
(* Model of the query pipeline of secretario-bot:                          *)
(*   - HybridRetriever._retrieve (core/retriever.py): the two sub-searches *)
(*     and the merge by node_id (specification SpecRetrieve);              *)
(*   - BotHandlers (bot/handlers.py) with BotMessages, GreetingDetector    *)
(*     and InstitutionalHybridBot.query / get_context_for_query            *)
(*     (core/engine.py): one asyncio task per inbound message, one worker  *)
(*     thread per engine call (specification Spec).                        *)
(***************************************************************************)
EXTENDS Integers, Sequences, FiniteSets, TLC

VARIABLES
    \* ---- HybridRetriever._retrieve ----
    rpc,            \* position inside _retrieve
    vstat,          \* vector sub-search: "idle" | "running" | "done" | "raised"
    bstat,          \* BM25 sub-search:   "idle" | "running" | "done" | "raised"
    vector_nodes,   \* list returned by vector_retriever.retrieve
    bm25_nodes,     \* list returned by bm25_retriever.retrieve
    retrieved,      \* value returned by _retrieve
    vector_top_k,   \* similarity_top_k the vector retriever was built with
    bm25_top_k,     \* similarity_top_k the BM25 retriever was built with
    similarity_cutoff, \* cutoff the SimilarityPostprocessor was built with, in hundredths
    context_nodes,  \* the retrieved nodes the postprocessor lets through
    \* ---- BotHandlers / engine ----
    users_started,  \* BotHandlers.users_started
    arrived,        \* number of updates dispatched so far
    req,            \* per update: [cmd, user, text]
    pc,             \* per update: position of its handler coroutine
    worker,         \* per update: position of the to_thread worker
    result,         \* per update: value the worker returned
    exc,            \* per update: exception caught by the handler's try statement
    uncaught,       \* per update: exception that left the handler
    placeholder,    \* per update: state of processing_msg
    outbox,         \* per update: messages the transport accepted, in order
    outcome,        \* per update: exit of _process_query's try statement
    \* ---- one call of InstitutionalHybridBot.query, statement by statement ----
    qpc,            \* position inside query / validate_response
    q_text,         \* text: the query as the user wrote it
    q_normalized,   \* normalized_query
    q_raw,          \* response_text = str(response)
    q_response,     \* response, the local of validate_response
    q_prefix,       \* index in prefixes_to_remove of the loop's next candidate
    q_removed,      \* indices of the candidates removed so far, in order
    q_warning,      \* whether line 180 of engine.py logged its warning
    q_final,        \* final_response, what _prepare_response returned
    \* ---- one call of GreetingDetector.classify_message ----
    cpc,            \* position inside classify_message
    c_text,         \* text
    c_greet,        \* is_greet
    c_quest,        \* has_quest
    c_result,       \* the tuple returned
    c_seen          \* the tuples returned so far

rvars == <<rpc, vstat, bstat, vector_nodes, bm25_nodes, retrieved,
           vector_top_k, bm25_top_k, similarity_cutoff, context_nodes>>
hvars == <<users_started, arrived, req, pc, worker, result, exc, uncaught,
           placeholder, outbox, outcome>>
qvars == <<qpc, q_text, q_normalized, q_raw, q_response, q_prefix, q_removed,
           q_warning, q_final>>
cvars == <<cpc, c_text, c_greet, c_quest, c_result, c_seen>>
vars == <<rpc, vstat, bstat, vector_nodes, bm25_nodes, retrieved,
          vector_top_k, bm25_top_k, similarity_cutoff, context_nodes,
          users_started, arrived, req, pc, worker, result, exc, uncaught,
          placeholder, outbox, outcome,
          qpc, q_text, q_normalized, q_raw, q_response, q_prefix, q_removed,
          q_warning, q_final,
          cpc, c_text, c_greet, c_quest, c_result, c_seen>>

Min(a, b) == IF a <= b THEN a ELSE b

\* s[:k] of Python
Take(s, k) == SubSeq(s, 1, Min(k, Len(s)))

\* s[k:] of Python
Drop(s, k) == SubSeq(s, Min(k, Len(s)) + 1, Len(s))

(***************************************************************************)
(* Bounds of the model                                                     *)
(***************************************************************************)
MaxNodeId == 3      \* node identifiers are 1..MaxNodeId
MaxTopK == 2        \* longest list a sub-retriever returns
MaxReq == 2         \* updates dispatched in one run
MaxUsers == 2       \* distinct senders

(***************************************************************************)
(* HybridRetriever                                                         *)
(***************************************************************************)
NodeIds == 1..MaxNodeId

\* Lists of distinct identifiers of length <= MaxTopK: what one retriever
\* ranks for one query.
IdLists ==
    {s \in UNION {[1..n -> NodeIds] : n \in 0..MaxTopK} :
        \A i, j \in DOMAIN s : i # j => s[i] # s[j]}

\* NodeWithScore objects of the vector retriever: similarity in (0, 1],
\* written in hundredths, decreasing with rank.
VectorResult(ids) ==
    [i \in DOMAIN ids |-> [node_id |-> ids[i], score |-> 45 - 10 * i, origin |-> "vector"]]

\* NodeWithScore objects of the BM25 retriever: BM25 scale, in hundredths,
\* decreasing with rank.
Bm25Result(ids) ==
    [i \in DOMAIN ids |-> [node_id |-> ids[i], score |-> 700 - 100 * i, origin |-> "bm25"]]

\* d[key] = n on a Python dict kept as the list of its values in key
\* insertion order: a new key is appended, an existing key keeps its position
\* and takes the new value.
DictSetFirstWins(d, n) ==
    IF \E i \in DOMAIN d : d[i].node_id = n.node_id
    THEN d
    ELSE Append(d, n)

DictSet(d, n) ==
    IF \E i \in DOMAIN d : d[i].node_id = n.node_id
    THEN [i \in DOMAIN d |-> IF d[i].node_id = n.node_id THEN n ELSE d[i]]
    ELSE Append(d, n)

\* {n.node.node_id: n for n in nodes}
RECURSIVE DictComprehension(_)
DictComprehension(nodes) ==
    IF nodes = <<>> THEN <<>>
    ELSE DictSet(DictComprehension(SubSeq(nodes, 1, Len(nodes) - 1)), nodes[Len(nodes)])

FuseVectorOnly(vnodes, bnodes) == DictComprehension(vnodes)

FuseConcat(vnodes, bnodes) == vnodes \o bnodes

FuseBm25First(vnodes, bnodes) == DictComprehension(bnodes \o vnodes)

\* list(all_nodes.values()) of vector_nodes + bm25_nodes
Fuse(vnodes, bnodes) == DictComprehension(vnodes \o bnodes)

\* settings.py, RETRIEVAL SETTINGS; the cutoff in hundredths
SIMILARITY_TOP_K == 20
SIMILARITY_CUTOFF == 20

\* SimilarityPostprocessor: the nodes whose score is not below the cutoff
PostprocessNodes(nodes, cutoff) ==
    LET Keep(n) == n.score >= cutoff
    IN  SelectSeq(nodes, Keep)

\* the engine _setup_hybrid_engine built: engine.py lines 114 and 115 pass
\* SIMILARITY_TOP_K to the two retrievers, line 133 passes the literal 0.3 to
\* the postprocessor
SetupHybridEngine ==
    /\ vector_top_k = SIMILARITY_TOP_K
    /\ bm25_top_k = SIMILARITY_TOP_K
    /\ similarity_cutoff = 30

\* an engine that was set up, before any retrieval
RInit ==
    /\ rpc = "start"
    /\ vstat = "idle"
    /\ bstat = "idle"
    /\ vector_nodes = <<>>
    /\ bm25_nodes = <<>>
    /\ retrieved = <<>>
    /\ SetupHybridEngine
    /\ context_nodes = <<>>

\* line 44: self.vector_retriever.retrieve(query_bundle) is called
VectorCall ==
    /\ rpc = "start"
    /\ rpc' = "vector"
    /\ vstat' = "running"
    /\ UNCHANGED <<bstat, vector_nodes, bm25_nodes, retrieved>>
    /\ UNCHANGED <<vector_top_k, bm25_top_k, similarity_cutoff, context_nodes>>
    /\ UNCHANGED <<hvars, qvars, cvars>>

\* line 44: the vector search returns its list
VectorReturn ==
    /\ rpc = "vector"
    /\ \E ids \in IdLists :
           /\ Len(ids) <= vector_top_k
           /\ vector_nodes' = VectorResult(ids)
    /\ vstat' = "done"
    /\ rpc' = "bm25_call"
    /\ UNCHANGED <<bstat, bm25_nodes, retrieved>>
    /\ UNCHANGED <<vector_top_k, bm25_top_k, similarity_cutoff, context_nodes>>
    /\ UNCHANGED <<hvars, qvars, cvars>>

VectorRaiseSwallowed ==
    /\ rpc = "vector"
    /\ vstat' = "raised"
    /\ vector_nodes' = <<>>
    /\ rpc' = "bm25_call"
    /\ UNCHANGED <<bstat, bm25_nodes, retrieved>>
    /\ UNCHANGED <<vector_top_k, bm25_top_k, similarity_cutoff, context_nodes>>
    /\ UNCHANGED <<hvars, qvars, cvars>>

\* line 44: the vector search raises; nothing in _retrieve catches it
VectorRaise ==
    /\ rpc = "vector"
    /\ vstat' = "raised"
    /\ rpc' = "raised"
    /\ UNCHANGED <<bstat, vector_nodes, bm25_nodes, retrieved>>
    /\ UNCHANGED <<vector_top_k, bm25_top_k, similarity_cutoff, context_nodes>>
    /\ UNCHANGED <<hvars, qvars, cvars>>

Bm25CallFanOut ==
    /\ rpc = "vector"
    /\ bstat = "idle"
    /\ bstat' = "running"
    /\ UNCHANGED <<rpc, vstat, vector_nodes, bm25_nodes, retrieved>>
    /\ UNCHANGED <<vector_top_k, bm25_top_k, similarity_cutoff, context_nodes>>
    /\ UNCHANGED <<hvars, qvars, cvars>>

\* line 48: self.bm25_retriever.retrieve(query_bundle) is called, after
\* line 44 has returned
Bm25Call ==
    /\ rpc = "bm25_call"
    /\ bstat' = "running"
    /\ rpc' = "bm25"
    /\ UNCHANGED <<vstat, vector_nodes, bm25_nodes, retrieved>>
    /\ UNCHANGED <<vector_top_k, bm25_top_k, similarity_cutoff, context_nodes>>
    /\ UNCHANGED <<hvars, qvars, cvars>>

\* line 48: the BM25 search returns its list
Bm25Return ==
    /\ rpc = "bm25"
    /\ \E ids \in IdLists :
           /\ Len(ids) <= bm25_top_k
           /\ bm25_nodes' = Bm25Result(ids)
    /\ bstat' = "done"
    /\ rpc' = "merge"
    /\ UNCHANGED <<vstat, vector_nodes, retrieved>>
    /\ UNCHANGED <<vector_top_k, bm25_top_k, similarity_cutoff, context_nodes>>
    /\ UNCHANGED <<hvars, qvars, cvars>>

\* line 48: the BM25 search raises; nothing in _retrieve catches it
Bm25Raise ==
    /\ rpc = "bm25"
    /\ bstat' = "raised"
    /\ rpc' = "raised"
    /\ UNCHANGED <<vstat, vector_nodes, bm25_nodes, retrieved>>
    /\ UNCHANGED <<vector_top_k, bm25_top_k, similarity_cutoff, context_nodes>>
    /\ UNCHANGED <<hvars, qvars, cvars>>

\* lines 52-55: merge by node_id and return
Merge ==
    /\ rpc = "merge"
    /\ retrieved' = Fuse(vector_nodes, bm25_nodes)
    /\ rpc' = "returned"
    /\ UNCHANGED <<vstat, bstat, vector_nodes, bm25_nodes>>
    /\ UNCHANGED <<vector_top_k, bm25_top_k, similarity_cutoff, context_nodes>>
    /\ UNCHANGED <<hvars, qvars, cvars>>

\* engine.py lines 130-135: the query engine runs its node_postprocessors
\* on what the retriever returned
Postprocess ==
    /\ rpc = "returned"
    /\ context_nodes' = PostprocessNodes(retrieved, similarity_cutoff)
    /\ rpc' = "postprocessed"
    /\ UNCHANGED <<vstat, bstat, vector_nodes, bm25_nodes, retrieved>>
    /\ UNCHANGED <<vector_top_k, bm25_top_k, similarity_cutoff>>
    /\ UNCHANGED <<hvars, qvars, cvars>>

RNext ==
    \/ Postprocess
    \/ VectorCall
    \/ VectorReturn
    \/ VectorRaise
    \/ Bm25Call
    \/ Bm25Return
    \/ Bm25Raise
    \/ Merge

(***************************************************************************)
(* Text: a Python str is the sequence of its characters                    *)
(***************************************************************************)
UpperCase ==
    <<"A", "B", "C", "D", "E", "F", "G", "H", "I", "J", "K", "L",
      "M", "N", "O", "P", "Q", "R", "S", "T", "U", "V", "W", "X",
      "Y", "Z">>

LowerCase ==
    <<"a", "b", "c", "d", "e", "f", "g", "h", "i", "j", "k", "l",
      "m", "n", "o", "p", "q", "r", "s", "t", "u", "v", "w", "x",
      "y", "z">>

\* c.lower() for one character
LowerChar(c) ==
    IF \E i \in DOMAIN UpperCase : UpperCase[i] = c
    THEN LowerCase[CHOOSE i \in DOMAIN UpperCase : UpperCase[i] = c]
    ELSE c

\* str.lower(); also how re.IGNORECASE compares
Lower(s) == [i \in DOMAIN s |-> LowerChar(s[i])]

\* the characters \w matches
WordChars ==
    { LowerCase[i] : i \in DOMAIN LowerCase } \cup { UpperCase[i] : i \in DOMAIN UpperCase }
    \cup { "á", "é", "í", "ó", "ú", "â", "ê", "ô", "ã", "õ", "ç", "º", "_",
           "0", "1", "2", "3", "4", "5", "6", "7", "8", "9" }

WhiteSpace == { " ", "\n", "\t" }

StartsWith(s, p) == Len(p) <= Len(s) /\ SubSeq(s, 1, Len(p)) = p

\* str.lstrip / str.rstrip / str.strip
RECURSIVE LStrip(_)
LStrip(s) == IF s # <<>> /\ s[1] \in WhiteSpace THEN LStrip(Tail(s)) ELSE s

RECURSIVE RStrip(_)
RStrip(s) ==
    IF s # <<>> /\ s[Len(s)] \in WhiteSpace THEN RStrip(SubSeq(s, 1, Len(s) - 1)) ELSE s

Strip(s) == RStrip(LStrip(s))

\* \b at the gap before position i of s (i in 1..Len(s)+1)
WordBoundary(s, i) ==
    LET before == i > 1 /\ s[i - 1] \in WordChars
        after == i <= Len(s) /\ s[i] \in WordChars
    IN  before # after

\* \b(w)\b matches s at position i
WordAt(s, w, i) ==
    /\ i + Len(w) - 1 <= Len(s)
    /\ SubSeq(s, i, i + Len(w) - 1) = w
    /\ WordBoundary(s, i)
    /\ WordBoundary(s, i + Len(w))

\* re.search(r'\b(w1|w2|...)\b', s) for the words of table
SearchWords(s, table) == \E w \in table : \E i \in DOMAIN s : WordAt(s, w, i)

(***************************************************************************)
(* GreetingDetector (utils/greeting_detector.py)                           *)
(***************************************************************************)
\* the alternatives of the \b(...)\b entries of GREETING_PATTERNS
GREETING_PATTERNS ==
    { <<"o", "i">>,
      <<"o", "l", "á">>,
      <<"o", "l", "a">>,
      <<"h", "e", "y">>,
      <<"o", "p", "a">>,
      <<"e", " ", "a", "í">>,
      <<"e", "a", "e">>,
      <<"e", "a", "i">>,
      <<"b", "o", "m", " ", "d", "i", "a">>,
      <<"b", "o", "a", " ", "t", "a", "r", "d", "e">>,
      <<"b", "o", "a", " ", "n", "o", "i", "t", "e">>,
      <<"t", "u", "d", "o", " ", "b", "e", "m">>,
      <<"t", "u", "d", "o", " ", "b", "o", "m">>,
      <<"c", "o", "m", "o", " ", "v", "a", "i">>,
      <<"t", "d", " ", "b", "e", "m">>,
      <<"b", "l", "z">>,
      <<"s", "a", "l", "v", "e">>,
      <<"f", "a", "l", "a">>,
      <<"c", "o", "é">> }

\* the alternatives of the \b(...)\b entries of QUESTION_PATTERNS
QUESTION_PATTERNS ==
    { <<"o", " ", "q", "u", "e">>,
      <<"c", "o", "m", "o">>,
      <<"q", "u", "a", "n", "d", "o">>,
      <<"o", "n", "d", "e">>,
      <<"p", "o", "r", " ", "q", "u", "e">>,
      <<"p", "o", "r", "q", "u", "e">>,
      <<"q", "u", "a", "l">>,
      <<"q", "u", "a", "i", "s">>,
      <<"q", "u", "a", "n", "t", "o", "s">>,
      <<"q", "u", "a", "n", "t", "a", "s">>,
      <<"p", "o", "d", "e">>,
      <<"p", "o", "d", "e", "r", "i", "a">>,
      <<"c", "o", "n", "s", "e", "g", "u", "e">>,
      <<"s", "a", "b", "e">>,
      <<"t", "e", "m", " ", "c", "o", "m", "o">>,
      <<"m", "e", " ", "d", "i", "g", "a">>,
      <<"m", "e", " ", "f", "a", "l", "a">>,
      <<"m", "e", " ", "m", "o", "s", "t", "r", "a">>,
      <<"m", "e", " ", "e", "x", "p", "l", "i", "c", "a">>,
      <<"m", "e", " ", "a", "j", "u", "d", "a">>,
      <<"q", "u", "e", "r", "o", " ", "s", "a", "b", "e", "r">>,
      <<"g", "o", "s", "t", "a", "r", "i", "a", " ", "d", "e", " ", "s", "a", "b", "e", "r">>,
      <<"p", "r", "e", "c", "i", "s", "o", " ", "s", "a", "b", "e", "r">> }

\* ^(stem)(last)+$ with $ also matching before one final newline
RepeatedLast(s, stem, last) ==
    LET t == IF s # <<>> /\ s[Len(s)] = "\n" THEN SubSeq(s, 1, Len(s) - 1) ELSE s
    IN  /\ Len(t) > Len(stem)
        /\ SubSeq(t, 1, Len(stem)) = stem
        /\ \A i \in (Len(stem) + 1)..Len(t) : t[i] = last

\* ^/start$
OnlyStart(s) == s \in { <<"/", "s", "t", "a", "r", "t">>, <<"/", "s", "t", "a", "r", "t", "\n">> }

\* bool(self.greeting_regex.search(text)), re.IGNORECASE
is_greeting(text) ==
    LET s == Lower(text)
    IN  \/ SearchWords(s, GREETING_PATTERNS)
        \/ RepeatedLast(s, <<"o">>, "i")
        \/ RepeatedLast(s, <<"o", "l">>, "á")
        \/ RepeatedLast(s, <<"h", "e">>, "y")
        \/ OnlyStart(s)

\* bool(self.question_regex.search(text)), re.IGNORECASE
is_question(text) ==
    LET s == Lower(text)
    IN  \/ \E i \in DOMAIN s : s[i] = "?"
        \/ SearchWords(s, QUESTION_PATTERNS)

classify_message(text) == <<is_greeting(text), is_question(text)>>

(***************************************************************************)
(* InstitutionalHybridBot (core/engine.py), ResponseValidator              *)
(* (core/prompts.py)                                                       *)
(***************************************************************************)
BlockNouns == { <<"b", "l", "o", "c", "o">>, <<"p", "e", "r", "í", "o", "d", "o">>, <<"s", "e", "m", "e", "s", "t", "r", "e">> }

\* the ordinal alternatives of the four block_patterns, in table order
BlockOrdinals ==
    << { <<"p", "r", "i", "m", "e", "i", "r", "o">>, <<"1", "º">>, <<"1">>, <<"i">> },
       { <<"s", "e", "g", "u", "n", "d", "o">>, <<"2", "º">>, <<"2">>, <<"i", "i">> },
       { <<"t", "e", "r", "c", "e", "i", "r", "o">>, <<"3", "º">>, <<"3">>, <<"i", "i", "i">> },
       { <<"q", "u", "a", "r", "t", "o">>, <<"4", "º">>, <<"4">>, <<"i", "v">> } >>

\* the expansion of each block pattern, in table order
BlockExpansions ==
    << <<"B", "l", "o", "c", "o", " ", "I", " ", "P", "r", "i", "m", "e", "i", "r", "o", " ", "s", "e", "m", "e", "s", "t", "r", "e">>,
       <<"B", "l", "o", "c", "o", " ", "I", "I", " ", "S", "e", "g", "u", "n", "d", "o", " ", "s", "e", "m", "e", "s", "t", "r", "e">>,
       <<"B", "l", "o", "c", "o", " ", "I", "I", "I", " ", "T", "e", "r", "c", "e", "i", "r", "o", " ", "s", "e", "m", "e", "s", "t", "r", "e">>,
       <<"B", "l", "o", "c", "o", " ", "I", "V", " ", "Q", "u", "a", "r", "t", "o", " ", "s", "e", "m", "e", "s", "t", "r", "e">> >>

\* re.search(r'\b(ordinals)\s*(bloco|período|semestre)\b', s)
BlockSearch(s, ordinals) ==
    \E i \in DOMAIN s : \E o \in ordinals : \E n \in BlockNouns : \E k \in 0..Len(s) :
        LET j == i + Len(o) + k
        IN  /\ j + Len(n) - 1 <= Len(s)
            /\ WordBoundary(s, i)
            /\ SubSeq(s, i, i + Len(o) - 1) = o
            /\ \A m \in (i + Len(o))..(j - 1) : s[m] \in WhiteSpace
            /\ SubSeq(s, j, j + Len(n) - 1) = n
            /\ WordBoundary(s, j + Len(n))

\* the first pattern of the table, from index k on, that matches s (0: none)
RECURSIVE FirstBlockPattern(_, _)
FirstBlockPattern(s, k) ==
    IF k > Len(BlockOrdinals) THEN 0
    ELSE IF BlockSearch(s, BlockOrdinals[k]) THEN k
    ELSE FirstBlockPattern(s, k + 1)

normalize_last_match(text) ==
    LET ks == { k \in DOMAIN BlockOrdinals : BlockSearch(Lower(text), BlockOrdinals[k]) }
    IN  IF ks = {} THEN text
        ELSE text \o <<" ">> \o BlockExpansions[CHOOSE k \in ks : \A j \in ks : j <= k]

normalize_block_reference(text) ==
    LET k == FirstBlockPattern(Lower(text), 1)
    IN  IF k = 0 THEN text ELSE text \o <<" ">> \o BlockExpansions[k]

MIN_RESPONSE_LENGTH == 20

prefixes_to_remove ==
    << <<"R", "E", "S", "P", "O", "S", "T", "A", ":">>,
       <<"R", "e", "s", "p", "o", "s", "t", "a", ":">>,
       <<"C", "o", "m", " ", "b", "a", "s", "e", " ", "n", "o", "s", " ", "d", "o", "c", "u", "m", "e", "n", "t", "o", "s", ",">>,
       <<"D", "e", " ", "a", "c", "o", "r", "d", "o", " ", "c", "o", "m", " ", "o", "s", " ", "d", "o", "c", "u", "m", "e", "n", "t", "o", "s", ",">> >>

FallbackHead ==
    <<"D", "e", "s", "c", "u", "l", "p", "e", ",", " ", "n", "ã",
      "o", " ", "e", "n", "c", "o", "n", "t", "r", "e", "i", " ",
      "i", "n", "f", "o", "r", "m", "a", "ç", "õ", "e", "s", " ",
      "s", "u", "f", "i", "c", "i", "e", "n", "t", "e", "s", " ",
      "n", "o", "s", " ", "d", "o", "c", "u", "m", "e", "n", "t",
      "o", "s", " ", "p", "a", "r", "a", " ", "r", "e", "s", "p",
      "o", "n", "d", "e", "r", ":", " ", "'">>

\* the body of the for loop of validate_response, from prefix k on: no break
RECURSIVE RemovePrefixes(_, _)
RemovePrefixes(response, k) ==
    IF k > Len(prefixes_to_remove) THEN response
    ELSE IF StartsWith(response, prefixes_to_remove[k])
         THEN RemovePrefixes(Strip(Drop(response, Len(prefixes_to_remove[k]))), k + 1)
         ELSE RemovePrefixes(response, k + 1)

validate_response(response, query) ==
    LET cleaned == RemovePrefixes(Strip(response), 1)
    IN  IF Len(cleaned) < MIN_RESPONSE_LENGTH
        THEN FallbackHead \o query \o <<"'">>
        ELSE cleaned

\* prompts.py lines 75-82
hallucination_phrases ==
    { <<"e", "u", " ", "a", "c", "h", "o", " ", "q", "u", "e">>,
      <<"p", "r", "o", "v", "a", "v", "e", "l", "m", "e", "n", "t", "e">>,
      <<"d", "e", "v", "e", " ", "s", "e", "r">>,
      <<"p", "o", "s", "s", "i", "v", "e", "l", "m", "e", "n", "t", "e">>,
      <<"n", "a", " ", "m", "i", "n", "h", "a", " ", "o", "p", "i", "n", "i", "ã", "o">>,
      <<"a", "c", "r", "e", "d", "i", "t", "o", " ", "q", "u", "e">> }

\* sub in s
Contains(s, sub) ==
    \E i \in 1..(Len(s) - Len(sub) + 1) : SubSeq(s, i, i + Len(sub) - 1) = sub

\* prompts.py lines 84-85
detect_hallucination_indicators(response) ==
    \E phrase \in hallucination_phrases : Contains(Lower(response), phrase)

\* what str(self.query_engine.query(...)) may be
RawShort == <<"R", "e", "s", "p", "o", "s", "t", "a", ":", " ", "S", "i", "m">>
RawLong ==
    <<"R", "E", "S", "P", "O", "S", "T", "A", ":", " ", "O", " ",
      "b", "l", "o", "c", "o", " ", "I", " ", "t", "e", "m", " ",
      "5", " ", "d", "i", "s", "c", "i", "p", "l", "i", "n", "a",
      "s", ".">>
RawResponses == { RawShort, RawLong }

\* an exception: its class, str(e), and the call that raised it
Exception(type, text, raised_by) == [type |-> type, text |-> text, raised_by |-> raised_by]
NoExc == Exception("none", <<>>, "none")
ShortCause == <<"b", "o", "o", "m">>
LongCauseLen == 151
LongCause == [i \in 1..LongCauseLen |-> "x"]

\* what a sub-search may raise
RetrievalErrors ==
    { Exception("Exception", ShortCause, "retrieval"),
      Exception("Exception", LongCause, "retrieval") }

\* what the synthesis call may raise
SynthesisErrors ==
    { Exception("Exception", <<"l", "l", "m">>, "synthesis"),
      Exception("TimeoutError", <<"t", "i", "m", "e", "d", " ", "o", "u", "t">>, "synthesis") }

\* what a call of the chat transport may raise
TransportError == Exception("Exception", <<"n", "e", "t">>, "transport")

ErroContextoHeader ==
    <<"E", "r", "r", "o", " ", "a", "o", " ", "r", "e", "c", "u",
      "p", "e", "r", "a", "r", " ", "c", "o", "n", "t", "e", "x",
      "t", "o", ":", " ">>

\* what the retriever gives get_context_for_query when it works
NodeContext == <<"[", "N", "o", "d", "e", " ", "1", "]", " ", "p", "p", "c", ".", "p", "d", "f">>

(***************************************************************************)
(* BotMessages (bot/messages.py): a message is its template and the text   *)
(* interpolated into it                                                    *)
(***************************************************************************)
Msg(tpl, body) == [tpl |-> tpl, body |-> body]
NoMsg == Msg("none", <<>>)

MAX_RESPONSE_LENGTH == 4000
ERROR_DETAIL_LENGTH == 150
DEBUG_CONTEXT_LENGTH == 3500

welcome_message == Msg("welcome", <<>>)
greeting_response == Msg("greeting", <<>>)
greeting_with_query_intro == Msg("greeting_intro", <<>>)
processing_message == Msg("processing", <<>>)
timeout_message == Msg("timeout", <<>>)
error_message_full(error) == Msg("error", error)
error_message(error) == Msg("error", Take(error, ERROR_DETAIL_LENGTH))
truncation_warning == <<".", ".", ".">>

prepare_response_marker_added(response_text) ==
    IF Len(response_text) > MAX_RESPONSE_LENGTH
    THEN Take(response_text, MAX_RESPONSE_LENGTH) \o truncation_warning
    ELSE response_text

prepare_response(response_text) ==
    IF Len(response_text) > MAX_RESPONSE_LENGTH
    THEN Take(response_text, MAX_RESPONSE_LENGTH - 3) \o truncation_warning
    ELSE response_text

(***************************************************************************)
(* Inbound updates and routing (main.py: dp.message.register)              *)
(***************************************************************************)
Reqs == 1..MaxReq
Users == 1..MaxUsers

TxtStart == <<"/", "s", "t", "a", "r", "t">>
TxtContextoBare == <<"/", "c", "o", "n", "t", "e", "x", "t", "o">>
TxtContextoArg == <<"/", "c", "o", "n", "t", "e", "x", "t", "o", " ", "1", " ", "b", "l", "o", "c", "o">>
TxtOi == <<"o", "i">>
TxtGreetQuestion == <<"O", "i", ",", " ", "q", "u", "a", "l", " ", "o", " ", "1", " ", "b", "l", "o", "c", "o", "?">>
TxtQuestion == <<"q", "u", "a", "l", " ", "o", " ", "1", " ", "b", "l", "o", "c", "o", "?">>
TxtOther == <<"o", "k", " ", "o", "b", "r", "i", "g", "a", "d", "o">>

\* an update: has_text is FALSE for a photo, a sticker, ... (message.text is None)
Update(user, has_text, text) == [user |-> user, has_text |-> has_text, text |-> text]
NoUpdate == Update(0, FALSE, <<>>)

Updates ==
    { Update(u, TRUE, t) : u \in Users,
        t \in { TxtStart, TxtContextoBare, TxtContextoArg, TxtOi, TxtGreetQuestion,
                TxtQuestion, TxtOther } }
    \cup { Update(u, FALSE, <<>>) : u \in Users }

\* the first whitespace-delimited word of s
RECURSIVE FirstWord(_)
FirstWord(s) ==
    IF s = <<>> \/ s[1] \in WhiteSpace THEN <<>> ELSE <<s[1]>> \o FirstWord(Tail(s))

\* parts[1] of s.split(maxsplit=1), <<>> when len(parts) < 2
SplitRest(s) == LStrip(Drop(LStrip(s), Len(FirstWord(LStrip(s)))))

\* Command("start") / Command("contexto") filters
IsCommand(m, name) == m.has_text /\ FirstWord(m.text) = <<"/">> \o name

IsStart(m) == IsCommand(m, <<"s", "t", "a", "r", "t">>)
IsContexto(m) == ~IsStart(m) /\ IsCommand(m, <<"c", "o", "n", "t", "e", "x", "t", "o">>)

\* the handler the dispatcher gives each update to (first filter that matches)
Route ==
    [m \in Updates |->
        IF IsStart(m) THEN "cmd_start"
        ELSE IF IsContexto(m) THEN "cmd_debug_context"
        ELSE "handle_query"]

\* the texts the engine is called with, and what the pure steps of the
\* pipeline make of them (tabulated once)
EngineTexts ==
    { m.text : m \in { u \in Updates : Route[u] = "handle_query" /\ u.has_text } }
    \cup { SplitRest(m.text) : m \in { u \in Updates : Route[u] = "cmd_debug_context" } }

Classified == [t \in EngineTexts |-> classify_message(t)]

Normalized == [t \in EngineTexts |-> normalize_block_reference(t)]

Validated == [raw \in RawResponses |-> [t \in EngineTexts |-> validate_response(raw, t)]]

(***************************************************************************)
(* BotHandlers (bot/handlers.py)                                           *)
(***************************************************************************)
\* what the worker thread holds: the text in progress or returned, or the
\* exception it raised
NoResult == [status |-> "pending", text |-> <<>>, exc |-> NoExc]
Returned(text) == [status |-> "value", text |-> text, exc |-> NoExc]
Raised(e) == [status |-> "exception", text |-> <<>>, exc |-> e]

NoPlaceholder == [state |-> "none", msg |-> NoMsg]
Shown(msg) == [state |-> "shown", msg |-> msg]
Deleted(msg) == [state |-> "deleted", msg |-> msg]

HInit ==
    /\ users_started = {}
    /\ arrived = 0
    /\ req = [r \in Reqs |-> NoUpdate]
    /\ pc = [r \in Reqs |-> "idle"]
    /\ worker = [r \in Reqs |-> "none"]
    /\ result = [r \in Reqs |-> NoResult]
    /\ exc = [r \in Reqs |-> NoExc]
    /\ uncaught = [r \in Reqs |-> NoExc]
    /\ placeholder = [r \in Reqs |-> NoPlaceholder]
    /\ outbox = [r \in Reqs |-> <<>>]
    /\ outcome = [r \in Reqs |-> "none"]

\* the coroutine of update r moves to position p
Goto(r, p) == pc' = [pc EXCEPT ![r] = p]

\* message.answer(msg) of update r was accepted by the transport
Deliver(r, msg) == outbox' = [outbox EXCEPT ![r] = Append(@, msg)]

\* an exception leaves the handler of update r
Escape(r, e) ==
    /\ Goto(r, "escaped")
    /\ uncaught' = [uncaught EXCEPT ![r] = e]

\* ---- cmd_start, lines 29-37 ----
CmdStartNoMark(m) ==
    /\ arrived < MaxReq
    /\ Route[m] = "cmd_start"
    /\ arrived' = arrived + 1
    /\ req' = [req EXCEPT ![arrived + 1] = m]
    /\ Goto(arrived + 1, "welcome_send")
    /\ UNCHANGED <<users_started, worker, result, exc, uncaught, placeholder, outbox, outcome>>
    /\ UNCHANGED <<rvars, qvars, cvars>>

\* lines 31-34: the sender is added, then the welcome message is awaited
CmdStart(m) ==
    /\ arrived < MaxReq
    /\ Route[m] = "cmd_start"
    /\ arrived' = arrived + 1
    /\ req' = [req EXCEPT ![arrived + 1] = m]
    /\ users_started' = users_started \cup {m.user}
    /\ Goto(arrived + 1, "welcome_send")
    /\ UNCHANGED <<worker, result, exc, uncaught, placeholder, outbox, outcome>>
    /\ UNCHANGED <<rvars, qvars, cvars>>

WelcomeSent(r) ==
    /\ pc[r] = "welcome_send"
    /\ Deliver(r, welcome_message)
    /\ Goto(r, "done")
    /\ UNCHANGED <<users_started, arrived, req, worker,
                 result, exc, uncaught, placeholder, outcome>>
    /\ UNCHANGED <<rvars, qvars, cvars>>

WelcomeSendFails(r) ==
    /\ pc[r] = "welcome_send"
    /\ Escape(r, TransportError)
    /\ UNCHANGED <<users_started, arrived, req, worker,
                 result, exc, placeholder, outbox, outcome>>
    /\ UNCHANGED <<rvars, qvars, cvars>>

\* ---- handle_query, lines 82-121 ----
\* lines 94-100 with message.text None: re.search(None) raises TypeError
HandleQueryNoText(m) ==
    /\ arrived < MaxReq
    /\ Route[m] = "handle_query"
    /\ ~m.has_text
    /\ arrived' = arrived + 1
    /\ req' = [req EXCEPT ![arrived + 1] = m]
    /\ Escape(arrived + 1, Exception("TypeError", <<>>, "classify_message"))
    /\ UNCHANGED <<users_started, worker, result, exc, placeholder, outbox, outcome>>
    /\ UNCHANGED <<rvars, qvars, cvars>>

\* lines 94-133: classification and routing, up to the first await
HandleQuery(m) ==
    /\ arrived < MaxReq
    /\ Route[m] = "handle_query"
    /\ m.has_text
    /\ arrived' = arrived + 1
    /\ req' = [req EXCEPT ![arrived + 1] = m]
    /\ LET c == Classified[m.text]
           is_greet == c[1]
           has_quest == c[2]
       IN  IF is_greet /\ ~has_quest
           THEN Goto(arrived + 1, "greet_send")
           ELSE IF is_greet /\ has_quest /\ m.user \notin users_started
           THEN Goto(arrived + 1, "intro_send")
           ELSE Goto(arrived + 1, "ph_send")
    /\ UNCHANGED <<users_started, worker, result, exc, uncaught, placeholder, outbox, outcome>>
    /\ UNCHANGED <<rvars, qvars, cvars>>

GreetSentFallsThrough(r) ==
    /\ pc[r] = "greet_send"
    /\ Deliver(r, greeting_response)
    /\ users_started' = users_started \cup {req[r].user}
    /\ Goto(r, "ph_send")
    /\ UNCHANGED <<arrived, req, worker, result, exc, uncaught, placeholder, outcome>>
    /\ UNCHANGED <<rvars, qvars, cvars>>

\* lines 105-108: the greeting reply was sent; mark the sender and return
GreetSent(r) ==
    /\ pc[r] = "greet_send"
    /\ Deliver(r, greeting_response)
    /\ users_started' = users_started \cup {req[r].user}
    /\ Goto(r, "done")
    /\ UNCHANGED <<arrived, req, worker, result, exc, uncaught, placeholder, outcome>>
    /\ UNCHANGED <<rvars, qvars, cvars>>

GreetSendFails(r) ==
    /\ pc[r] = "greet_send"
    /\ Escape(r, TransportError)
    /\ UNCHANGED <<users_started, arrived, req, worker,
                 result, exc, placeholder, outbox, outcome>>
    /\ UNCHANGED <<rvars, qvars, cvars>>

IntroSentNoMark(r) ==
    /\ pc[r] = "intro_send"
    /\ Deliver(r, greeting_with_query_intro)
    /\ Goto(r, "ph_send")
    /\ UNCHANGED <<users_started, arrived, req, worker, result,
                 exc, uncaught, placeholder, outcome>>
    /\ UNCHANGED <<rvars, qvars, cvars>>

\* lines 115-133: the intro was sent; mark the sender, go on to _process_query
IntroSent(r) ==
    /\ pc[r] = "intro_send"
    /\ Deliver(r, greeting_with_query_intro)
    /\ users_started' = users_started \cup {req[r].user}
    /\ Goto(r, "ph_send")
    /\ UNCHANGED <<arrived, req, worker, result, exc, uncaught, placeholder, outcome>>
    /\ UNCHANGED <<rvars, qvars, cvars>>

IntroSendFails(r) ==
    /\ pc[r] = "intro_send"
    /\ Escape(r, TransportError)
    /\ UNCHANGED <<users_started, arrived, req, worker,
                 result, exc, placeholder, outbox, outcome>>
    /\ UNCHANGED <<rvars, qvars, cvars>>

\* ---- _process_query, lines 123-168 ----
PlaceholderSentMarks(r) ==
    /\ pc[r] = "ph_send"
    /\ placeholder' = [placeholder EXCEPT ![r] = Shown(processing_message)]
    /\ worker' = [worker EXCEPT ![r] = "queued"]
    /\ users_started' = users_started \cup {req[r].user}
    /\ Goto(r, "await_engine")
    /\ UNCHANGED <<arrived, req, result, exc, uncaught, outbox, outcome>>
    /\ UNCHANGED <<rvars, qvars, cvars>>

\* lines 133-143: the placeholder was sent; engine.query is handed to a
\* worker thread and awaited under wait_for
PlaceholderSent(r) ==
    /\ pc[r] = "ph_send"
    /\ placeholder' = [placeholder EXCEPT ![r] = Shown(processing_message)]
    /\ worker' = [worker EXCEPT ![r] = "queued"]
    /\ Goto(r, "await_engine")
    /\ UNCHANGED <<users_started, arrived, req, result, exc, uncaught, outbox, outcome>>
    /\ UNCHANGED <<rvars, qvars, cvars>>

\* line 133 raises, outside the try statement
PlaceholderSendFails(r) ==
    /\ pc[r] = "ph_send"
    /\ Escape(r, TransportError)
    /\ UNCHANGED <<users_started, arrived, req, worker,
                 result, exc, placeholder, outbox, outcome>>
    /\ UNCHANGED <<rvars, qvars, cvars>>

WorkerStartSkipsNormalize(r) ==
    /\ worker[r] = "queued"
    /\ worker' = [worker EXCEPT ![r] = "retrieving"]
    /\ UNCHANGED <<users_started, arrived, req, pc, result,
                 exc, uncaught, placeholder, outbox, outcome>>
    /\ UNCHANGED <<rvars, qvars, cvars>>

\* InstitutionalHybridBot.query in the worker thread, engine.py lines 165-185
WorkerStart(r) ==
    /\ worker[r] = "queued"
    /\ worker' = [worker EXCEPT ![r] = "normalizing"]
    /\ UNCHANGED <<users_started, arrived, req, pc, result,
                 exc, uncaught, placeholder, outbox, outcome>>
    /\ UNCHANGED <<rvars, qvars, cvars>>

\* engine.py line 170: the normalized query is kept for the query engine
WorkerNormalize(r) ==
    /\ worker[r] = "normalizing"
    /\ worker' = [worker EXCEPT ![r] = "retrieving"]
    /\ result' = [result EXCEPT ![r].text = Normalized[req[r].text]]
    /\ UNCHANGED <<users_started, arrived, req, pc, exc, uncaught, placeholder, outbox, outcome>>
    /\ UNCHANGED <<rvars, qvars, cvars>>

\* engine.py line 173, retrieval phase of query_engine.query: the fused
\* nodes come back
WorkerRetrieve(r) ==
    /\ worker[r] = "retrieving"
    /\ worker' = [worker EXCEPT ![r] = "synthesizing"]
    /\ UNCHANGED <<users_started, arrived, req, pc, result,
                 exc, uncaught, placeholder, outbox, outcome>>
    /\ UNCHANGED <<rvars, qvars, cvars>>

\* engine.py lines 173, 183-185: a sub-search raises; query logs and re-raises
WorkerRetrieveRaises(r) ==
    /\ worker[r] = "retrieving"
    /\ worker' = [worker EXCEPT ![r] = "raised"]
    /\ \E e \in RetrievalErrors : result' = [result EXCEPT ![r] = Raised(e)]
    /\ UNCHANGED <<users_started, arrived, req, pc, exc, uncaught, placeholder, outbox, outcome>>
    /\ UNCHANGED <<rvars, qvars, cvars>>

\* engine.py lines 173-174: the synthesizer returns; response_text = str(response)
WorkerSynthesize(r) ==
    /\ worker[r] = "synthesizing"
    /\ worker' = [worker EXCEPT ![r] = "validating"]
    /\ \E raw \in RawResponses : result' = [result EXCEPT ![r].text = raw]
    /\ UNCHANGED <<users_started, arrived, req, pc, exc, uncaught, placeholder, outbox, outcome>>
    /\ UNCHANGED <<rvars, qvars, cvars>>

\* engine.py lines 173, 183-185: the synthesis call raises; query re-raises
WorkerSynthesizeRaises(r) ==
    /\ worker[r] = "synthesizing"
    /\ worker' = [worker EXCEPT ![r] = "raised"]
    /\ \E e \in SynthesisErrors : result' = [result EXCEPT ![r] = Raised(e)]
    /\ UNCHANGED <<users_started, arrived, req, pc, exc, uncaught, placeholder, outbox, outcome>>
    /\ UNCHANGED <<rvars, qvars, cvars>>

\* engine.py lines 177-182: validate against the original text and return
WorkerValidate(r) ==
    /\ worker[r] = "validating"
    /\ worker' = [worker EXCEPT ![r] = "returned"]
    /\ result' = [result EXCEPT ![r] = Returned(Validated[result[r].text][req[r].text])]
    /\ UNCHANGED <<users_started, arrived, req, pc, exc, uncaught, placeholder, outbox, outcome>>
    /\ UNCHANGED <<rvars, qvars, cvars>>

EngineReturnsLate(r) ==
    /\ pc[r] \in {"await_engine", "done"}
    /\ outcome[r] \in {"none", "TimedOut"}
    /\ worker[r] = "returned"
    /\ Goto(r, "ph_delete")
    /\ UNCHANGED <<users_started, arrived, req, worker, result,
                 exc, uncaught, placeholder, outbox, outcome>>
    /\ UNCHANGED <<rvars, qvars, cvars>>

\* lines 140-145: wait_for hands over the value the worker returned
EngineReturns(r) ==
    /\ pc[r] = "await_engine"
    /\ worker[r] = "returned"
    /\ Goto(r, "ph_delete")
    /\ UNCHANGED <<users_started, arrived, req, worker, result,
                 exc, uncaught, placeholder, outbox, outcome>>
    /\ UNCHANGED <<rvars, qvars, cvars>>

ExceptClauseGenericFirst(e) == "error_edit"

\* the except clause of lines 157-168 that takes exception e
ExceptClause(e) == IF e.type = "TimeoutError" THEN "timeout_edit" ELSE "error_edit"

\* an exception e raised inside the try statement of lines 137-155
Catch(r, e) ==
    /\ exc' = [exc EXCEPT ![r] = e]
    /\ outcome' = [outcome EXCEPT ![r] =
           IF ExceptClause(e) = "timeout_edit" THEN "TimedOut" ELSE "Failed"]
    /\ Goto(r, ExceptClause(e))

\* lines 140-143, 157-168: wait_for re-raises what the worker raised
EngineRaises(r) ==
    /\ pc[r] = "await_engine"
    /\ worker[r] = "raised"
    /\ Catch(r, result[r].exc)
    /\ UNCHANGED <<users_started, arrived, req, worker, result, uncaught, placeholder, outbox>>
    /\ UNCHANGED <<rvars, qvars, cvars>>

\* lines 140-143, 157-159: QUERY_TIMEOUT elapses before wait_for has handed
\* over a result; the worker thread is left running
Timeout(r) ==
    /\ pc[r] = "await_engine"
    /\ Catch(r, Exception("TimeoutError", <<>>, "wait_for"))
    /\ UNCHANGED <<users_started, arrived, req, worker, result, uncaught, placeholder, outbox>>
    /\ UNCHANGED <<rvars, qvars, cvars>>

\* lines 148-154: the placeholder was deleted; the answer is prepared and sent
PlaceholderDeleted(r) ==
    /\ pc[r] = "ph_delete"
    /\ placeholder' = [placeholder EXCEPT ![r] = Deleted(@.msg)]
    /\ Goto(r, "answer_send")
    /\ UNCHANGED <<users_started, arrived, req, worker, result, exc, uncaught, outbox, outcome>>
    /\ UNCHANGED <<rvars, qvars, cvars>>

\* line 148 raises inside the try statement
PlaceholderDeleteFails(r) ==
    /\ pc[r] = "ph_delete"
    /\ Catch(r, TransportError)
    /\ UNCHANGED <<users_started, arrived, req, worker, result, uncaught, placeholder, outbox>>
    /\ UNCHANGED <<rvars, qvars, cvars>>

\* lines 151-155: the transport accepted the answer
AnswerSent(r) ==
    /\ pc[r] = "answer_send"
    /\ Deliver(r, Msg("answer", prepare_response(result[r].text)))
    /\ outcome' = [outcome EXCEPT ![r] = "Success"]
    /\ Goto(r, "done")
    /\ UNCHANGED <<users_started, arrived, req, worker, result, exc, uncaught, placeholder>>
    /\ UNCHANGED <<rvars, qvars, cvars>>

\* line 154 raises inside the try statement
AnswerSendFails(r) ==
    /\ pc[r] = "answer_send"
    /\ Catch(r, TransportError)
    /\ UNCHANGED <<users_started, arrived, req, worker, result, uncaught, placeholder, outbox>>
    /\ UNCHANGED <<rvars, qvars, cvars>>

\* line 159: the placeholder now shows the timeout message
TimeoutShown(r) ==
    /\ pc[r] = "timeout_edit"
    /\ placeholder[r].state = "shown"
    /\ placeholder' = [placeholder EXCEPT ![r] = Shown(timeout_message)]
    /\ Goto(r, "done")
    /\ UNCHANGED <<users_started, arrived, req, worker, result, exc, uncaught, outbox, outcome>>
    /\ UNCHANGED <<rvars, qvars, cvars>>

\* line 159 raises inside the except clause
TimeoutEditFails(r) ==
    /\ pc[r] = "timeout_edit"
    /\ Escape(r, TransportError)
    /\ UNCHANGED <<users_started, arrived, req, worker,
                 result, exc, placeholder, outbox, outcome>>
    /\ UNCHANGED <<rvars, qvars, cvars>>

\* lines 166-168: the placeholder now shows the error message
ErrorShown(r) ==
    /\ pc[r] = "error_edit"
    /\ placeholder[r].state = "shown"
    /\ placeholder' = [placeholder EXCEPT ![r] = Shown(error_message(exc[r].text))]
    /\ Goto(r, "done")
    /\ UNCHANGED <<users_started, arrived, req, worker, result, exc, uncaught, outbox, outcome>>
    /\ UNCHANGED <<rvars, qvars, cvars>>

\* lines 166-168 raise inside the except clause; a deleted message cannot
\* be edited, so the edit of a deleted placeholder always ends here
ErrorEditFails(r) ==
    /\ pc[r] = "error_edit"
    /\ Escape(r, TransportError)
    /\ UNCHANGED <<users_started, arrived, req, worker,
                 result, exc, placeholder, outbox, outcome>>
    /\ UNCHANGED <<rvars, qvars, cvars>>

\* ---- cmd_debug_context, lines 39-80 ----
debug_context(context) ==
    IF Len(context) > DEBUG_CONTEXT_LENGTH
    THEN Take(context, DEBUG_CONTEXT_LENGTH - 3) \o <<".", ".", ".">>
    ELSE context

\* lines 45-59: usage reply when nothing follows the command, else the
\* "searching" placeholder
CmdDebugContext(m) ==
    /\ arrived < MaxReq
    /\ Route[m] = "cmd_debug_context"
    /\ arrived' = arrived + 1
    /\ req' = [req EXCEPT ![arrived + 1] = m]
    /\ IF SplitRest(m.text) = <<>>
       THEN Goto(arrived + 1, "usage_send")
       ELSE Goto(arrived + 1, "dbg_ph_send")
    /\ UNCHANGED <<users_started, worker, result, exc, uncaught, placeholder, outbox, outcome>>
    /\ UNCHANGED <<rvars, qvars, cvars>>

UsageSent(r) ==
    /\ pc[r] = "usage_send"
    /\ Deliver(r, Msg("usage", <<>>))
    /\ Goto(r, "done")
    /\ UNCHANGED <<users_started, arrived, req, worker,
                 result, exc, uncaught, placeholder, outcome>>
    /\ UNCHANGED <<rvars, qvars, cvars>>

UsageSendFails(r) ==
    /\ pc[r] = "usage_send"
    /\ Escape(r, TransportError)
    /\ UNCHANGED <<users_started, arrived, req, worker,
                 result, exc, placeholder, outbox, outcome>>
    /\ UNCHANGED <<rvars, qvars, cvars>>

\* lines 59-65: get_context_for_query is handed to a worker thread and
\* awaited, with no timeout
DebugPlaceholderSent(r) ==
    /\ pc[r] = "dbg_ph_send"
    /\ placeholder' = [placeholder EXCEPT ![r] = Shown(Msg("searching", <<>>))]
    /\ worker' = [worker EXCEPT ![r] = "ctx_retrieving"]
    /\ Goto(r, "dbg_await")
    /\ UNCHANGED <<users_started, arrived, req, result, exc, uncaught, outbox, outcome>>
    /\ UNCHANGED <<rvars, qvars, cvars>>

DebugPlaceholderSendFails(r) ==
    /\ pc[r] = "dbg_ph_send"
    /\ Escape(r, TransportError)
    /\ UNCHANGED <<users_started, arrived, req, worker,
                 result, exc, placeholder, outbox, outcome>>
    /\ UNCHANGED <<rvars, qvars, cvars>>

\* engine.py lines 189-198: the retriever returns, the context is built
WorkerContext(r) ==
    /\ worker[r] = "ctx_retrieving"
    /\ worker' = [worker EXCEPT ![r] = "returned"]
    /\ LET query == SplitRest(req[r].text)
       IN  result' = [result EXCEPT ![r] =
               Returned(query \o <<"\n">> \o Normalized[query]
                        \o <<"\n">> \o NodeContext)]
    /\ UNCHANGED <<users_started, arrived, req, pc, exc, uncaught, placeholder, outbox, outcome>>
    /\ UNCHANGED <<rvars, qvars, cvars>>

\* engine.py lines 191, 199-200: the retriever raises; the exception's text
\* is returned as the context
WorkerContextRaises(r) ==
    /\ worker[r] = "ctx_retrieving"
    /\ worker' = [worker EXCEPT ![r] = "returned"]
    /\ \E e \in RetrievalErrors :
           result' = [result EXCEPT ![r] = Returned(ErroContextoHeader \o e.text)]
    /\ UNCHANGED <<users_started, arrived, req, pc, exc, uncaught, placeholder, outbox, outcome>>
    /\ UNCHANGED <<rvars, qvars, cvars>>

\* lines 62-67
DebugEngineReturns(r) ==
    /\ pc[r] = "dbg_await"
    /\ worker[r] = "returned"
    /\ Goto(r, "dbg_delete")
    /\ UNCHANGED <<users_started, arrived, req, worker, result,
                 exc, uncaught, placeholder, outbox, outcome>>
    /\ UNCHANGED <<rvars, qvars, cvars>>

\* lines 67-73
DebugPlaceholderDeleted(r) ==
    /\ pc[r] = "dbg_delete"
    /\ placeholder' = [placeholder EXCEPT ![r] = Deleted(@.msg)]
    /\ Goto(r, "dbg_answer")
    /\ UNCHANGED <<users_started, arrived, req, worker, result, exc, uncaught, outbox, outcome>>
    /\ UNCHANGED <<rvars, qvars, cvars>>

\* line 67 raises inside the try statement
DebugPlaceholderDeleteFails(r) ==
    /\ pc[r] = "dbg_delete"
    /\ exc' = [exc EXCEPT ![r] = TransportError]
    /\ Goto(r, "dbg_edit")
    /\ UNCHANGED <<users_started, arrived, req, worker,
                 result, uncaught, placeholder, outbox, outcome>>
    /\ UNCHANGED <<rvars, qvars, cvars>>

\* lines 70-76
DebugContextSent(r) ==
    /\ pc[r] = "dbg_answer"
    /\ Deliver(r, Msg("context", debug_context(result[r].text)))
    /\ Goto(r, "done")
    /\ UNCHANGED <<users_started, arrived, req, worker,
                 result, exc, uncaught, placeholder, outcome>>
    /\ UNCHANGED <<rvars, qvars, cvars>>

\* line 73 raises inside the try statement
DebugContextSendFails(r) ==
    /\ pc[r] = "dbg_answer"
    /\ exc' = [exc EXCEPT ![r] = TransportError]
    /\ Goto(r, "dbg_edit")
    /\ UNCHANGED <<users_started, arrived, req, worker,
                 result, uncaught, placeholder, outbox, outcome>>
    /\ UNCHANGED <<rvars, qvars, cvars>>

\* lines 78-80
DebugErrorShown(r) ==
    /\ pc[r] = "dbg_edit"
    /\ placeholder[r].state = "shown"
    /\ placeholder' = [placeholder EXCEPT ![r] =
           Shown(Msg("debug_error", Take(exc[r].text, ERROR_DETAIL_LENGTH)))]
    /\ Goto(r, "done")
    /\ UNCHANGED <<users_started, arrived, req, worker, result, exc, uncaught, outbox, outcome>>
    /\ UNCHANGED <<rvars, qvars, cvars>>

\* line 80 raises inside the except clause
DebugErrorEditFails(r) ==
    /\ pc[r] = "dbg_edit"
    /\ Escape(r, TransportError)
    /\ UNCHANGED <<users_started, arrived, req, worker,
                 result, exc, placeholder, outbox, outcome>>
    /\ UNCHANGED <<rvars, qvars, cvars>>

(***************************************************************************)
(* One call of InstitutionalHybridBot.query (core/engine.py) with          *)
(* ResponseValidator.validate_response (core/prompts.py), statement by     *)
(* statement (specification SpecQuery)                                     *)
(***************************************************************************)
MaxPrefixes == 2    \* candidates stacked at the head of a generated response
MaxOverflow == 1000 \* characters of the longest response beyond MAX_RESPONSE_LENGTH

\* a response body of n characters
Body(n) == [i \in 1..n |-> "a"]

\* body lengths around the threshold of line 59
BodyLengths ==
    { 0, 3, MIN_RESPONSE_LENGTH - 1, MIN_RESPONSE_LENGTH, MIN_RESPONSE_LENGTH + 2 }

\* the candidates idx names, in that order, each followed by a blank, then body
RECURSIVE Stacked(_, _)
Stacked(idx, body) ==
    IF idx = <<>> THEN body
    ELSE prefixes_to_remove[Head(idx)] \o <<" ">> \o Stacked(Tail(idx), body)

PrefixStacks == UNION { [1..n -> DOMAIN prefixes_to_remove] : n \in 0..MaxPrefixes }

\* what str(self.query_engine.query(...)) may be: any stack of candidates,
\* with or without blanks around, and candidates in the wrong case
QueryResponses ==
    { pad \o Stacked(idx, Body(n)) \o pad :
          pad \in { <<>>, <<" ">> }, idx \in PrefixStacks, n \in BodyLengths }
    \cup { Lower(prefixes_to_remove[k]) \o <<" ">> \o Body(MIN_RESPONSE_LENGTH + 2) :
               k \in DOMAIN prefixes_to_remove }
    \* responses with a phrase of hallucination_phrases, long and short
    \cup { <<"P", "r", "o", "v", "a", "v", "e", "l", "m", "e", "n", "t", "e", " ">>
               \o Body(MIN_RESPONSE_LENGTH + 2),
           Body(MIN_RESPONSE_LENGTH) \o <<" ", "d", "e", "v", "e", " ", "s", "e", "r">>,
           <<"d", "e", "v", "e", " ", "s", "e", "r", " ">> \o Body(3) }
    \* responses around MAX_RESPONSE_LENGTH
    \cup { [i \in 1..n |-> IF i % 2 = 1 THEN "a" ELSE "b"] :
               n \in { MAX_RESPONSE_LENGTH - 1, MAX_RESPONSE_LENGTH,
                       MAX_RESPONSE_LENGTH + 1, MAX_RESPONSE_LENGTH + MaxOverflow } }

\* the texts query is called with: one the normalizer expands, one it
\* leaves, one that matches the second pattern of the table before the first,
\* one in capitals, one with the ordinal glued to the noun
QueryTexts ==
    { TxtQuestion, TxtOther,
      <<"2", " ", "b", "l", "o", "c", "o", " ", "e", " ", "1", " ", "b", "l", "o", "c", "o">>,
      <<"Q", "U", "A", "R", "T", "O", " ", "S", "E", "M", "E", "S", "T", "R", "E">>,
      <<"3", "º", "p", "e", "r", "í", "o", "d", "o">> }

\* no call of query in progress
QIdle ==
    /\ qpc = "idle"
    /\ q_text = <<>>
    /\ q_normalized = <<>>
    /\ q_raw = <<>>
    /\ q_response = <<>>
    /\ q_prefix = 0
    /\ q_removed = <<>>
    /\ q_warning = FALSE
    /\ q_final = <<>>

\* engine.py line 165: query(text) is entered
QInit ==
    /\ qpc = "normalize"
    /\ q_text \in QueryTexts
    /\ q_normalized = <<>>
    /\ q_raw = <<>>
    /\ q_response = <<>>
    /\ q_prefix = 0
    /\ q_removed = <<>>
    /\ q_warning = FALSE
    /\ q_final = <<>>

\* engine.py line 170
QNormalize ==
    /\ qpc = "normalize"
    /\ q_normalized' = normalize_block_reference(q_text)
    /\ qpc' = "synthesize"
    /\ UNCHANGED <<q_text, q_raw, q_response, q_prefix, q_removed>>
    /\ UNCHANGED <<q_warning, q_final>>
    /\ UNCHANGED <<rvars, hvars, cvars>>

\* engine.py lines 173-174
QSynthesize ==
    /\ qpc = "synthesize"
    /\ q_raw' \in QueryResponses
    /\ qpc' = "strip"
    /\ UNCHANGED <<q_text, q_normalized, q_response, q_prefix, q_removed>>
    /\ UNCHANGED <<q_warning, q_final>>
    /\ UNCHANGED <<rvars, hvars, cvars>>

\* engine.py line 177 calls validate_response(response_text, text);
\* prompts.py line 44
QStrip ==
    /\ qpc = "strip"
    /\ q_response' = Strip(q_raw)
    /\ q_prefix' = 1
    /\ qpc' = "loop"
    /\ UNCHANGED <<q_text, q_normalized, q_raw, q_removed>>
    /\ UNCHANGED <<q_warning, q_final>>
    /\ UNCHANGED <<rvars, hvars, cvars>>

\* prompts.py line 54: the for statement takes the next candidate, or ends
QLoopNext ==
    /\ q_prefix' = q_prefix + 1
    /\ qpc' = IF q_prefix = Len(prefixes_to_remove) THEN "length" ELSE "loop"

QPrefixRemovedAndBreak ==
    /\ qpc = "loop"
    /\ StartsWith(q_response, prefixes_to_remove[q_prefix])
    /\ q_response' = Strip(Drop(q_response, Len(prefixes_to_remove[q_prefix])))
    /\ q_removed' = Append(q_removed, q_prefix)
    /\ q_prefix' = Len(prefixes_to_remove) + 1
    /\ qpc' = "length"
    /\ UNCHANGED <<q_text, q_normalized, q_raw>>
    /\ UNCHANGED <<q_warning, q_final>>
    /\ UNCHANGED <<rvars, hvars, cvars>>

\* prompts.py lines 55-56: the candidate heads the text and is cut off
QPrefixRemoved ==
    /\ qpc = "loop"
    /\ StartsWith(q_response, prefixes_to_remove[q_prefix])
    /\ q_response' = Strip(Drop(q_response, Len(prefixes_to_remove[q_prefix])))
    /\ q_removed' = Append(q_removed, q_prefix)
    /\ QLoopNext
    /\ UNCHANGED <<q_text, q_normalized, q_raw>>
    /\ UNCHANGED <<q_warning, q_final>>
    /\ UNCHANGED <<rvars, hvars, cvars>>

\* prompts.py line 55: the candidate does not head the text
QPrefixKept ==
    /\ qpc = "loop"
    /\ ~StartsWith(q_response, prefixes_to_remove[q_prefix])
    /\ QLoopNext
    /\ UNCHANGED <<q_text, q_normalized, q_raw, q_response, q_removed>>
    /\ UNCHANGED <<q_warning, q_final>>
    /\ UNCHANGED <<rvars, hvars, cvars>>

QTooShortKept ==
    /\ qpc = "length"
    /\ Len(q_response) < MIN_RESPONSE_LENGTH
    /\ qpc' = "returned"
    /\ UNCHANGED <<q_text, q_normalized, q_raw, q_response, q_prefix, q_removed>>
    /\ UNCHANGED <<q_warning, q_final>>
    /\ UNCHANGED <<rvars, hvars, cvars>>

QTooShortEchoesNormalized ==
    /\ qpc = "length"
    /\ Len(q_response) < MIN_RESPONSE_LENGTH
    /\ q_response' = FallbackHead \o q_normalized \o <<"'">>
    /\ qpc' = "returned"
    /\ UNCHANGED <<q_text, q_normalized, q_raw, q_prefix, q_removed>>
    /\ UNCHANGED <<q_warning, q_final>>
    /\ UNCHANGED <<rvars, hvars, cvars>>

\* prompts.py lines 59-62: too short, the fallback echoes the query argument,
\* which line 177 of engine.py binds to text
QTooShort ==
    /\ qpc = "length"
    /\ Len(q_response) < MIN_RESPONSE_LENGTH
    /\ q_response' = FallbackHead \o q_text \o <<"'">>
    /\ qpc' = "returned"
    /\ UNCHANGED <<q_text, q_normalized, q_raw, q_prefix, q_removed>>
    /\ UNCHANGED <<q_warning, q_final>>
    /\ UNCHANGED <<rvars, hvars, cvars>>

\* prompts.py lines 59, 62 and engine.py line 182
QLongEnough ==
    /\ qpc = "length"
    /\ Len(q_response) >= MIN_RESPONSE_LENGTH
    /\ qpc' = "returned"
    /\ UNCHANGED <<q_text, q_normalized, q_raw, q_response, q_prefix, q_removed>>
    /\ UNCHANGED <<q_warning, q_final>>
    /\ UNCHANGED <<rvars, hvars, cvars>>

QDetectAltersText ==
    /\ qpc = "returned"
    /\ q_warning' = detect_hallucination_indicators(q_response)
    /\ q_response' = IF q_warning' THEN FallbackHead \o q_text \o <<"'">> ELSE q_response
    /\ qpc' = "query_returned"
    /\ UNCHANGED <<q_text, q_normalized, q_raw, q_prefix, q_removed, q_final>>
    /\ UNCHANGED <<rvars, hvars, cvars>>

\* engine.py lines 179-182: the detector is asked, a warning logged on True,
\* and validated_response returned
QDetect ==
    /\ qpc = "returned"
    /\ q_warning' = detect_hallucination_indicators(q_response)
    /\ qpc' = "query_returned"
    /\ UNCHANGED <<q_text, q_normalized, q_raw, q_response, q_prefix, q_removed, q_final>>
    /\ UNCHANGED <<rvars, hvars, cvars>>

\* handlers.py line 151: final_response = self._prepare_response(response_text, user_id)
QPrepare ==
    /\ qpc = "query_returned"
    /\ q_final' = prepare_response(q_response)
    /\ qpc' = "prepared"
    /\ UNCHANGED <<q_text, q_normalized, q_raw, q_response, q_prefix, q_removed, q_warning>>
    /\ UNCHANGED <<rvars, hvars, cvars>>

QNext ==
    \/ QDetect
    \/ QPrepare
    \/ QNormalize
    \/ QSynthesize
    \/ QStrip
    \/ QPrefixRemoved
    \/ QPrefixKept
    \/ QTooShort
    \/ QLongEnough

(***************************************************************************)
(* Specifications                                                          *)
(***************************************************************************)
(***************************************************************************)
(* GreetingDetector.classify_message, statement by statement                *)
(***************************************************************************)
\* the texts classify_message is called with: empty, emoji only, a bare
\* greeting, a greeting with a question, a question, neither, a greeting
\* that holds a question word, capitals, a drawn-out greeting, a bare "?"
ClassifyTexts ==
    { <<>>, <<"©", "®">>, TxtOi, TxtGreetQuestion, TxtQuestion, TxtOther,
      <<"c", "o", "m", "o", " ", "v", "a", "i">>,
      <<"B", "O", "M", " ", "D", "I", "A">>,
      <<"o", "i", "i", "i">>,
      <<"?">> }

\* no tuple returned yet
NotClassified == <<>>

CIdle ==
    /\ cpc = "idle"
    /\ c_text = <<>>
    /\ c_greet = FALSE
    /\ c_quest = FALSE
    /\ c_result = NotClassified
    /\ c_seen = {}

\* classify_message(text) is called
CCall(text) ==
    /\ cpc = "idle"
    /\ c_text' = text
    /\ c_result' = NotClassified
    /\ cpc' = "is_greeting"
    /\ UNCHANGED <<c_greet, c_quest, c_seen>>
    /\ UNCHANGED <<rvars, hvars, qvars>>

\* line 105: is_greet = self.is_greeting(text)
CIsGreeting ==
    /\ cpc = "is_greeting"
    /\ c_greet' = is_greeting(c_text)
    /\ cpc' = "is_question"
    /\ UNCHANGED <<c_text, c_quest, c_result, c_seen>>
    /\ UNCHANGED <<rvars, hvars, qvars>>

CIsQuestionUnlessGreeting ==
    /\ cpc = "is_question"
    /\ c_quest' = (~c_greet /\ is_question(c_text))
    /\ cpc' = "return"
    /\ UNCHANGED <<c_text, c_greet, c_result, c_seen>>
    /\ UNCHANGED <<rvars, hvars, qvars>>

\* line 106: has_quest = self.is_question(text)
CIsQuestion ==
    /\ cpc = "is_question"
    /\ c_quest' = is_question(c_text)
    /\ cpc' = "return"
    /\ UNCHANGED <<c_text, c_greet, c_result, c_seen>>
    /\ UNCHANGED <<rvars, hvars, qvars>>

\* line 108: return (is_greet, has_quest)
CReturn ==
    /\ cpc = "return"
    /\ c_result' = <<c_greet, c_quest>>
    /\ c_seen' = c_seen \cup {c_result'}
    /\ cpc' = "idle"
    /\ UNCHANGED <<c_text, c_greet, c_quest>>
    /\ UNCHANGED <<rvars, hvars, qvars>>

CNext ==
    \/ \E text \in ClassifyTexts : CCall(text)
    \/ CIsGreeting
    \/ CIsQuestion
    \/ CReturn

Init == HInit /\ RInit /\ QIdle /\ CIdle

Next ==
    \/ \E m \in Updates : CmdStart(m)
    \/ \E r \in Reqs : WelcomeSent(r)
    \/ \E r \in Reqs : WelcomeSendFails(r)
    \/ \E m \in Updates : HandleQueryNoText(m)
    \/ \E m \in Updates : HandleQuery(m)
    \/ \E r \in Reqs : GreetSent(r)
    \/ \E r \in Reqs : GreetSendFails(r)
    \/ \E r \in Reqs : IntroSent(r)
    \/ \E r \in Reqs : IntroSendFails(r)
    \/ \E r \in Reqs : PlaceholderSent(r)
    \/ \E r \in Reqs : PlaceholderSendFails(r)
    \/ \E r \in Reqs : WorkerStart(r)
    \/ \E r \in Reqs : WorkerNormalize(r)
    \/ \E r \in Reqs : WorkerRetrieve(r)
    \/ \E r \in Reqs : WorkerRetrieveRaises(r)
    \/ \E r \in Reqs : WorkerSynthesize(r)
    \/ \E r \in Reqs : WorkerSynthesizeRaises(r)
    \/ \E r \in Reqs : WorkerValidate(r)
    \/ \E r \in Reqs : EngineReturns(r)
    \/ \E r \in Reqs : EngineRaises(r)
    \/ \E r \in Reqs : Timeout(r)
    \/ \E r \in Reqs : PlaceholderDeleted(r)
    \/ \E r \in Reqs : PlaceholderDeleteFails(r)
    \/ \E r \in Reqs : AnswerSent(r)
    \/ \E r \in Reqs : AnswerSendFails(r)
    \/ \E r \in Reqs : TimeoutShown(r)
    \/ \E r \in Reqs : TimeoutEditFails(r)
    \/ \E r \in Reqs : ErrorShown(r)
    \/ \E r \in Reqs : ErrorEditFails(r)
    \/ \E m \in Updates : CmdDebugContext(m)
    \/ \E r \in Reqs : UsageSent(r)
    \/ \E r \in Reqs : UsageSendFails(r)
    \/ \E r \in Reqs : DebugPlaceholderSent(r)
    \/ \E r \in Reqs : DebugPlaceholderSendFails(r)
    \/ \E r \in Reqs : WorkerContext(r)
    \/ \E r \in Reqs : WorkerContextRaises(r)
    \/ \E r \in Reqs : DebugEngineReturns(r)
    \/ \E r \in Reqs : DebugPlaceholderDeleted(r)
    \/ \E r \in Reqs : DebugPlaceholderDeleteFails(r)
    \/ \E r \in Reqs : DebugContextSent(r)
    \/ \E r \in Reqs : DebugContextSendFails(r)
    \/ \E r \in Reqs : DebugErrorShown(r)
    \/ \E r \in Reqs : DebugErrorEditFails(r)

\* the handlers of the bot, one task per update
Spec == Init /\ [][Next]_vars

\* one call of HybridRetriever._retrieve
SpecRetrieve == Init /\ [][RNext]_vars

\* one call of InstitutionalHybridBot.query
InitQuery == HInit /\ RInit /\ QInit /\ CIdle

SpecQuery == InitQuery /\ [][QNext]_vars

\* calls of GreetingDetector.classify_message, one after the other; a call
\* that has begun runs on: its three statements neither wait nor loop
SpecClassify == Init /\ [][CNext]_vars /\ WF_vars(CIsGreeting \/ CIsQuestion \/ CReturn)

(***************************************************************************)
(* Properties of HybridRetriever._retrieve (under SpecRetrieve)            *)
(***************************************************************************)
\* identifiers both sub-searches returned
Overlap ==
    { vector_nodes[i].node_id : i \in DOMAIN vector_nodes }
    \cap { bm25_nodes[j].node_id : j \in DOMAIN bm25_nodes }

\* the entries of the returned list that carry identifier id
EntriesOf(id) == { k \in DOMAIN retrieved : retrieved[k].node_id = id }

\* C2 as stated: once _retrieve has returned, every identifier found by both
\* searches is represented by the entry of the vector search, score and origin
\* unchanged, and the BM25 duplicate is gone.
C2_VectorEntryKept ==
    rpc = "returned" =>
        \A i \in DOMAIN vector_nodes :
            vector_nodes[i].node_id \in Overlap =>
                /\ EntriesOf(vector_nodes[i].node_id) # {}
                /\ \A k \in EntriesOf(vector_nodes[i].node_id) : retrieved[k] = vector_nodes[i]

\* C2 amended: once _retrieve has returned, every identifier found by both
\* searches has exactly one entry in the returned list; it is the entry of the
\* BM25 search, score and origin unchanged, at the position the vector entry
\* took; the vector duplicate is gone.
C2_Bm25EntryKept ==
    rpc = "returned" =>
        \A i \in DOMAIN vector_nodes : \A j \in DOMAIN bm25_nodes :
            vector_nodes[i].node_id = bm25_nodes[j].node_id =>
                /\ EntriesOf(bm25_nodes[j].node_id) = {i}
                /\ retrieved[i] = bm25_nodes[j]
                /\ retrieved[i].origin = "bm25"
                /\ retrieved[i].score # vector_nodes[i].score

\* a merge of two lists that share one identifier and differ in another
C2_Witness ==
    /\ rpc = "returned"
    /\ Overlap # {}
    /\ \E i \in DOMAIN vector_nodes : vector_nodes[i].node_id \notin Overlap
    /\ \E j \in DOMAIN bm25_nodes : bm25_nodes[j].node_id \notin Overlap

\* identifiers a list of nodes holds
IdsOf(nodes) == { nodes[i].node_id : i \in DOMAIN nodes }

\* C15: once _retrieve has returned, every identifier of the vector list or
\* of the BM25 list has exactly one entry in the returned list, and every
\* other identifier has none.
C15_UniqueByIdentifier ==
    rpc = "returned" =>
        \A id \in NodeIds :
            Cardinality(EntriesOf(id)) =
                IF id \in IdsOf(vector_nodes) \cup IdsOf(bm25_nodes) THEN 1 ELSE 0

\* a merge of three identifiers, one of them found by both searches
C15_Witness ==
    /\ rpc = "returned"
    /\ Cardinality(Overlap) = 1
    /\ Cardinality(IdsOf(retrieved)) = 3

\* C16: the returned list is never longer than the two lists together, and
\* exactly as long when no identifier is in both.
C16_SizeOfFusedSet ==
    rpc = "returned" =>
        /\ Len(retrieved) <= Len(vector_nodes) + Len(bm25_nodes)
        /\ (Len(retrieved) = Len(vector_nodes) + Len(bm25_nodes)) <=> (Overlap = {})

\* a merge that is shorter than its inputs together, both non-empty
C16_Witness ==
    /\ rpc = "returned"
    /\ Overlap # {}
    /\ Len(retrieved) < Len(vector_nodes) + Len(bm25_nodes)
    /\ Len(retrieved) > Len(vector_nodes)

\* C17: the returned list holds the identifiers in order of first occurrence
\* in vector_nodes + bm25_nodes: first those of the vector list in its order,
\* then those only the BM25 search found, in its order; a higher score moves
\* nothing forward.
C17_OrderOfFirstOccurrence ==
    rpc = "returned" =>
        /\ \A i \in DOMAIN vector_nodes :
               i \in DOMAIN retrieved /\ retrieved[i].node_id = vector_nodes[i].node_id
        /\ \A j \in DOMAIN bm25_nodes :
               bm25_nodes[j].node_id \notin IdsOf(vector_nodes) =>
                   \E k \in DOMAIN retrieved :
                       /\ retrieved[k].node_id = bm25_nodes[j].node_id
                       /\ k = Len(vector_nodes)
                              + Cardinality({ h \in 1..j : bm25_nodes[h].node_id \notin IdsOf(vector_nodes) })

\* a returned list whose scores are not in decreasing order: an entry only the
\* BM25 search found stands behind vector entries of lower score
C17_Witness ==
    /\ rpc = "returned"
    /\ \E i, k \in DOMAIN retrieved :
           /\ i < k
           /\ retrieved[i].score < retrieved[k].score
           /\ retrieved[i].origin = "vector"
           /\ retrieved[k].origin = "bm25"

\* C6 as stated: the BM25 search is started while the vector search is still
\* in flight (fan-out), so both are in flight together before the merge.
C6_StartedInParallel ==
    [][(bstat = "idle" /\ bstat' = "running") => vstat' = "running"]_vars

\* C6 amended: the two searches run one after the other; the BM25 search is
\* started only after the vector search has returned, and at no time are both
\* in flight.
C6_StartedInSequence ==
    /\ [](~(vstat = "running" /\ bstat = "running"))
    /\ [][(bstat = "idle" /\ bstat' = "running") => (vstat = "done" /\ vstat' = "done")]_vars

\* the BM25 search in flight, the vector search finished with results
C6_Witness == bstat = "running" /\ vstat = "done" /\ vector_nodes # <<>>

\* C7: when either sub-search has raised, _retrieve has returned nothing and
\* ends by raising; a returned list always rests on both searches having
\* returned.
C7_FailurePropagates ==
    /\ (vstat = "raised" \/ bstat = "raised") => (rpc = "raised" /\ retrieved = <<>>)
    /\ vstat = "raised" => bstat = "idle"
    /\ rpc = "returned" => (vstat = "done" /\ bstat = "done")

\* the BM25 search raised after the vector search had found nodes
C7_Witness == bstat = "raised" /\ vstat = "done" /\ vector_nodes # <<>> /\ rpc = "raised"

(***************************************************************************)
(* Properties of the handlers (under Spec)                                 *)
(***************************************************************************)
\* updates given to handle_query that carry a text
IsQuery(r) == r <= arrived /\ Route[req[r]] = "handle_query" /\ req[r].has_text

\* updates given to handle_query
IsHandleQuery(r) == r <= arrived /\ Route[req[r]] = "handle_query"

\* QUERY_TIMEOUT elapsed on the engine call of update r
TimedOut(r) == exc[r].raised_by = "wait_for"

\* answers delivered for update r
Answers(r) == { i \in DOMAIN outbox[r] : outbox[r][i].tpl = "answer" }

\* every message the user of update r can see: the ones delivered, and what
\* the placeholder shows
Visible(r) ==
    { outbox[r][i] : i \in DOMAIN outbox[r] }
    \cup (IF placeholder[r].state = "shown" THEN { placeholder[r].msg } ELSE {})

\* C1: once QUERY_TIMEOUT has elapsed on the engine call of a request,
\* whatever the worker was doing, the request took the timeout exit, no answer
\* is ever delivered for it, its placeholder shows nothing but the processing
\* or the timeout message, and when the handler has returned the placeholder
\* shows the timeout message.
C1_TimeoutEndsTimedOut ==
    \A r \in Reqs :
        TimedOut(r) =>
            /\ outcome[r] = "TimedOut"
            /\ pc[r] \in {"timeout_edit", "done", "escaped"}
            /\ Answers(r) = {}
            /\ placeholder[r] \in {Shown(processing_message), Shown(timeout_message)}
            /\ pc[r] = "done" => placeholder[r] = Shown(timeout_message)
            /\ pc[r] = "escaped" => uncaught[r].raised_by = "transport"

\* the synthesis call had not returned when the timeout elapsed, and the
\* handler has returned
C1_Witness ==
    \E r \in Reqs :
        /\ TimedOut(r)
        /\ worker[r] = "synthesizing"
        /\ pc[r] = "done"
        /\ placeholder[r] = Shown(timeout_message)

\* C3 as stated: no exception leaves handle_query; every failure ends the
\* request in the timeout or the error exit.
C3_NothingEscapes ==
    \A r \in Reqs :
        IsHandleQuery(r) =>
            /\ pc[r] # "escaped"
            /\ uncaught[r] = NoExc

\* C4 as stated: no two requests of one sender both find the sender not yet
\* greeted, and the greeting intro is delivered at most once per sender.
C4_CheckAndInsertAtomic ==
    \A r1, r2 \in Reqs :
        (r1 # r2 /\ IsQuery(r1) /\ IsQuery(r2) /\ req[r1].user = req[r2].user) =>
            ~( /\ (pc[r1] = "intro_send" \/ greeting_with_query_intro \in Visible(r1))
               /\ (pc[r2] = "intro_send" \/ greeting_with_query_intro \in Visible(r2)) )

\* C5: from the timeout on, nothing the abandoned worker does reaches the
\* request: no message is delivered for it, the handler never awaits the
\* engine again, its exit and caught exception stay, and the placeholder
\* changes at most by the one edit to the timeout message.
C5_AbandonedWorkerDiscarded ==
    [][\A r \in Reqs :
        TimedOut(r) =>
            /\ TimedOut(r)'
            /\ outbox'[r] = outbox[r]
            /\ outcome'[r] = outcome[r]
            /\ pc'[r] \notin {"await_engine", "ph_delete", "answer_send", "error_edit"}
            /\ pc[r] \in {"done", "escaped"} => pc'[r] = pc[r]
            /\ placeholder'[r] # placeholder[r] =>
                   (pc[r] = "timeout_edit" /\ placeholder'[r] = Shown(timeout_message))]_vars

\* the worker of a timed-out request returned a response after the handler
\* had shown the timeout message
C5_Witness ==
    \E r \in Reqs :
        /\ TimedOut(r)
        /\ pc[r] = "done"
        /\ worker[r] = "returned"
        /\ result[r].status = "value"
        /\ placeholder[r] = Shown(timeout_message)

\* C8 as stated: when wait_for hands the handler an exception that a
\* sub-search or the synthesis call raised, the request takes the error exit,
\* no answer is delivered, and once the handler has returned the placeholder
\* shows the error message with the first 150 characters of the cause.
C8_EngineErrorEndsFailed ==
    \A r \in Reqs :
        exc[r].raised_by \in {"retrieval", "synthesis"} =>
            /\ outcome[r] = "Failed"
            /\ Answers(r) = {}
            /\ pc[r] = "done" =>
                   placeholder[r] = Shown(Msg("error", Take(exc[r].text, ERROR_DETAIL_LENGTH)))

\* the exception text a visible message carries
ExceptionTextIn(msg) ==
    IF msg.tpl \in {"error", "debug_error"} THEN msg.body
    ELSE IF msg.tpl = "context" /\ StartsWith(msg.body, ErroContextoHeader)
         THEN Drop(msg.body, Len(ErroContextoHeader))
    ELSE <<>>

\* C9 as stated, read in the claim's favour (the truncated detail of the error
\* message is not counted as raw exception text): no visible message carries
\* more than the first 150 characters of an exception's text.
C9_NoRawExceptionText ==
    \A r \in Reqs : \A msg \in Visible(r) : Len(ExceptionTextIn(msg)) <= ERROR_DETAIL_LENGTH

\* C10: a greeting without a question gets the greeting reply and nothing
\* else: no placeholder, no engine call, no exit of _process_query; when the
\* handler has returned the reply was delivered and the sender is marked.
C10_GreetingOnlyStops ==
    \A r \in Reqs :
        (IsQuery(r) /\ Classified[req[r].text] = <<TRUE, FALSE>>) =>
            /\ pc[r] \in {"greet_send", "done", "escaped"}
            /\ worker[r] = "none"
            /\ result[r] = NoResult
            /\ placeholder[r] = NoPlaceholder
            /\ outcome[r] = "none"
            /\ exc[r] = NoExc
            /\ outbox[r] \in {<<>>, <<greeting_response>>}
            /\ pc[r] = "greet_send" => outbox[r] = <<>>
            /\ pc[r] = "done" =>
                   (outbox[r] = <<greeting_response>> /\ req[r].user \in users_started)
            /\ pc[r] = "escaped" => (outbox[r] = <<>> /\ uncaught[r].raised_by = "transport")

\* a greeting-only message answered, its sender marked
C10_Witness ==
    \E r \in Reqs :
        /\ IsQuery(r)
        /\ Classified[req[r].text] = <<TRUE, FALSE>>
        /\ pc[r] = "done"
        /\ outbox[r] = <<greeting_response>>
        /\ req[r].user \in users_started

\* updates that handle_query classifies as greeting with a question
IsGreetingQuestion(r) == IsQuery(r) /\ Classified[req[r].text] = <<TRUE, TRUE>>

\* updates that handle_query classifies as no greeting
IsNoGreeting(r) == IsQuery(r) /\ ~Classified[req[r].text][1]

\* positions in the outbox of update r that hold message msg
Sent(r, msg) == { i \in DOMAIN outbox[r] : outbox[r][i] = msg }

\* C11: a greeting with a question is sent the intro exactly when its sender
\* is not in users_started at the check of line 114; the intro is then the
\* first message of the request, sent before the placeholder, and the sender
\* is marked when it was delivered; with or without intro the request goes on
\* to _process_query (the placeholder send). Only a raising send of the intro
\* ends the request before that.
C11_IntroIffNotGreeted ==
    /\ [](\A r \in Reqs :
            IsGreetingQuestion(r) =>
                /\ Sent(r, greeting_with_query_intro) \subseteq {1}
                /\ Sent(r, greeting_response) = {}
                /\ pc[r] = "intro_send" => (outbox[r] = <<>> /\ placeholder[r] = NoPlaceholder)
                /\ Sent(r, greeting_with_query_intro) # {} => req[r].user \in users_started)
    /\ [][\A r \in Reqs :
            /\ (pc[r] = "idle" /\ IsGreetingQuestion(r)') =>
                   pc'[r] = IF req'[r].user \in users_started THEN "ph_send" ELSE "intro_send"
            /\ (IsGreetingQuestion(r) /\ Sent(r, greeting_with_query_intro)' # Sent(r, greeting_with_query_intro)) =>
                   (pc[r] = "intro_send" /\ placeholder[r] = NoPlaceholder)
            /\ (IsGreetingQuestion(r) /\ pc[r] = "intro_send" /\ pc'[r] # "intro_send") =>
                   \/ /\ pc'[r] = "ph_send"
                      /\ outbox'[r] = <<greeting_with_query_intro>>
                      /\ req[r].user \in users_started'
                   \/ /\ pc'[r] = "escaped"
                      /\ uncaught'[r].raised_by = "transport"
                      /\ outbox'[r] = outbox[r]]_vars

\* two greetings with a question of one sender, both with their placeholder
\* sent: the first got the intro, the second did not
C11_Witness ==
    \E r1, r2 \in Reqs :
        /\ r1 < r2
        /\ IsGreetingQuestion(r1) /\ IsGreetingQuestion(r2)
        /\ req[r1].user = req[r2].user
        /\ placeholder[r1] # NoPlaceholder /\ placeholder[r2] # NoPlaceholder
        /\ outbox[r1] = <<greeting_with_query_intro>>
        /\ Sent(r2, greeting_with_query_intro) = {}

\* C12: users_started never loses a member; an update classified as no
\* greeting goes straight to the placeholder send of _process_query, is sent
\* no greeting, intro or welcome message, and leaves users_started as it is:
\* every sender added was added by a /start or by a greeting of theirs.
C12_GreetedSetOnlyGrows ==
    /\ [][users_started \subseteq users_started']_vars
    /\ [](\A r \in Reqs :
            IsNoGreeting(r) =>
                /\ Sent(r, greeting_response) = {}
                /\ Sent(r, greeting_with_query_intro) = {}
                /\ Sent(r, welcome_message) = {}
                /\ pc[r] \notin {"greet_send", "intro_send", "welcome_send"})
    /\ [][\A r \in Reqs :
            (pc[r] = "idle" /\ IsNoGreeting(r)') =>
                (pc'[r] = "ph_send" /\ users_started' = users_started)]_vars
    /\ [][\A u \in users_started' \ users_started :
            \E r \in Reqs :
                /\ pc'[r] # pc[r]
                /\ req'[r].user = u
                /\ \/ Route[req'[r]] = "cmd_start"
                   \/ (IsQuery(r)' /\ Classified[req'[r].text][1])]_vars

\* a question without greeting was answered and its sender is still not in
\* users_started
C12_Witness ==
    \E r \in Reqs :
        /\ IsNoGreeting(r)
        /\ pc[r] = "done"
        /\ outcome[r] = "Success"
        /\ req[r].user \notin users_started

\* the outcomes update r has produced towards its sender
Produced(r) ==
    (IF Answers(r) # {} THEN {"Success"} ELSE {})
    \cup (IF placeholder[r] = Shown(timeout_message) THEN {"TimedOut"} ELSE {})
    \cup (IF placeholder[r].state = "shown" /\ placeholder[r].msg.tpl = "error"
          THEN {"Failed"} ELSE {})

\* C13 as stated, for the requests whose placeholder _process_query has sent:
\* never two outcomes, and exactly one when the handler has ended.
C13_ExactlyOneOutcome ==
    \A r \in Reqs :
        (IsQuery(r) /\ placeholder[r] # NoPlaceholder) =>
            /\ Cardinality(Produced(r)) <= 1
            /\ pc[r] \in {"done", "escaped"} => Cardinality(Produced(r)) = 1

\* the steps of the worker thread that runs InstitutionalHybridBot.query
WorkerSteps ==
    { <<"none", "queued">>, <<"queued", "normalizing">>,
      <<"normalizing", "retrieving">>,
      <<"retrieving", "synthesizing">>, <<"retrieving", "raised">>,
      <<"synthesizing", "validating">>, <<"synthesizing", "raised">>,
      <<"validating", "returned">> }

\* C14: the worker of a request passes its stages only in the order
\* normalizing, retrieving, synthesizing, validating, and only after the
\* request was classified and its placeholder sent; retrieval and synthesis
\* work on the normalized query, validation on what the synthesis returned,
\* and the handler deletes the placeholder, truncates and delivers only what
\* validation returned.
C14_StagesInOrder ==
    /\ [][\A r \in Reqs :
            (IsQuery(r)' /\ worker'[r] # worker[r]) =>
                <<worker[r], worker'[r]>> \in WorkerSteps]_vars
    /\ [](\A r \in Reqs :
            IsQuery(r) =>
                /\ worker[r] # "none" => placeholder[r] # NoPlaceholder
                /\ pc[r] \in {"idle", "greet_send", "intro_send", "ph_send"} => worker[r] = "none"
                /\ worker[r] \in {"retrieving", "synthesizing"} =>
                       result[r].text = Normalized[req[r].text]
                /\ worker[r] = "validating" => result[r].text \in RawResponses
                /\ worker[r] = "returned" =>
                       \E raw \in RawResponses :
                           result[r] = Returned(Validated[raw][req[r].text])
                /\ (pc[r] \in {"ph_delete", "answer_send"} \/ Answers(r) # {}) =>
                       (worker[r] = "returned" /\ result[r].status = "value")
                /\ Answers(r) # {} =>
                       outbox[r][Len(outbox[r])] = Msg("answer", prepare_response(result[r].text)))

\* a request answered after its worker passed every stage
C14_Witness ==
    \E r \in Reqs :
        /\ IsQuery(r)
        /\ outcome[r] = "Success"
        /\ worker[r] = "returned"
        /\ Answers(r) # {}

(***************************************************************************)
(* Properties of validate_response (under SpecQuery)                       *)
(***************************************************************************)
\* the fallback of line 60 of prompts.py for query text t
Fallback(t) == FallbackHead \o t \o <<"'">>

\* the text validate_response holds when it reaches line 59, computed by the
\* loop of lines 54-56 as a whole
Cleaned == RemovePrefixes(Strip(q_raw), 1)

\* C18: what validate_response returns is never empty and never shorter than
\* 20 characters; it is the fallback for the query, or a trimmed trailing part
\* of the response it was given.
C18_ValidatedLongEnough ==
    qpc = "returned" =>
        /\ q_response # <<>>
        /\ Len(q_response) >= MIN_RESPONSE_LENGTH
        /\ \/ q_response = Fallback(q_text)
           \/ \E k \in 0..Len(q_raw) : q_response = Strip(Drop(q_raw, k))

\* an empty response of the synthesis ends as the fallback
C18_Witness ==
    /\ qpc = "returned"
    /\ q_raw = <<>>
    /\ q_response = Fallback(q_text)

\* C19 as stated: at most one candidate is removed from a response.
C19_AtMostOnePrefix == Len(q_removed) <= 1

\* C19 amended: the loop of lines 54-56 takes every candidate once, in table
\* order, whether or not an earlier one was removed: a candidate that heads
\* the text at its turn is cut off and the rest trimmed, any other leaves the
\* text as it is; so the candidates removed are in increasing table order,
\* and there can be several.
C19_EveryCandidateChecked ==
    /\ [][qpc = "loop" =>
            /\ q_prefix' = q_prefix + 1
            /\ qpc' = IF q_prefix = Len(prefixes_to_remove) THEN "length" ELSE "loop"
            /\ IF StartsWith(q_response, prefixes_to_remove[q_prefix])
               THEN /\ q_response' = Strip(Drop(q_response, Len(prefixes_to_remove[q_prefix])))
                    /\ q_removed' = Append(q_removed, q_prefix)
               ELSE /\ q_response' = q_response
                    /\ q_removed' = q_removed]_vars
    /\ []( /\ \A i, j \in DOMAIN q_removed : i < j => q_removed[i] < q_removed[j]
           /\ qpc \in {"length", "returned"} => q_prefix = Len(prefixes_to_remove) + 1
           /\ qpc = "length" => q_response = Cleaned )

\* a response that lost two candidates
C19_Witness ==
    /\ qpc = "returned"
    /\ Len(q_removed) = 2
    /\ q_response # Fallback(q_text)

\* C20: when the text left by trimming and prefix removal is shorter than 20
\* characters, what is returned is the fallback that quotes the text query
\* was called with, not the normalized query; otherwise it is that text left,
\* unchanged.
C20_FallbackEchoesOriginal ==
    qpc = "returned" =>
        /\ q_response = (IF Len(Cleaned) < MIN_RESPONSE_LENGTH THEN Fallback(q_text) ELSE Cleaned)
        /\ q_response = validate_response(q_raw, q_text)
        /\ q_normalized = normalize_block_reference(q_text)

\* a short response to a query the normalizer had expanded
C20_Witness ==
    /\ qpc = "returned"
    /\ q_normalized # q_text
    /\ Cleaned # <<>>
    /\ Len(Cleaned) < MIN_RESPONSE_LENGTH
    /\ q_response = Fallback(q_text)

\* the patterns of the table that match the text query was called with
BlockMatches ==
    { k \in DOMAIN BlockOrdinals : BlockSearch(Lower(q_text), BlockOrdinals[k]) }

\* C21: the detector of hallucination indicators is advisory. The step that
\* asks it leaves the text untouched, whatever it answers; what query returns
\* is exactly the validated response, and the text prepared for delivery is
\* the one that validated response gives, with or without a warning.
C21_DetectorIsAdvisory ==
    /\ [][qpc = "returned" =>
            /\ q_response' = q_response
            /\ q_warning' = detect_hallucination_indicators(q_response)]_vars
    /\ [](qpc \in {"query_returned", "prepared"} =>
            /\ q_response = validate_response(q_raw, q_text)
            /\ q_warning = detect_hallucination_indicators(q_response))
    /\ [](qpc = "prepared" =>
            q_final = prepare_response(validate_response(q_raw, q_text)))

\* a response the detector flagged, returned and prepared as it was validated
C21_Witness ==
    /\ qpc = "prepared"
    /\ q_warning
    /\ q_response = Strip(q_raw)
    /\ q_final = q_response

\* C22: a validated response no longer than MAX_RESPONSE_LENGTH is delivered
\* unchanged; a longer one is delivered as its first MAX_RESPONSE_LENGTH - 3
\* characters followed by the truncation marker, MAX_RESPONSE_LENGTH
\* characters in all. No prepared text is longer than MAX_RESPONSE_LENGTH.
C22_TruncatedToLimit ==
    qpc = "prepared" =>
        /\ Len(q_final) <= MAX_RESPONSE_LENGTH
        /\ IF Len(q_response) <= MAX_RESPONSE_LENGTH
           THEN q_final = q_response
           ELSE /\ q_final = SubSeq(q_response, 1, MAX_RESPONSE_LENGTH - 3) \o truncation_warning
                /\ Len(q_final) = MAX_RESPONSE_LENGTH
                /\ SubSeq(q_final, MAX_RESPONSE_LENGTH - 2, MAX_RESPONSE_LENGTH) = truncation_warning

\* a validated response of MAX_RESPONSE_LENGTH + MaxOverflow characters,
\* prepared for delivery
C22_Witness ==
    /\ qpc = "prepared"
    /\ Len(q_response) = MAX_RESPONSE_LENGTH + MaxOverflow
    /\ Len(q_final) = MAX_RESPONSE_LENGTH

\* C23: the normalizer returns the text verbatim when no pattern of the table
\* matches it; otherwise it returns the text, a blank, and the expansion of
\* the first pattern of the table that matches, and nothing else: one
\* expansion even when several patterns match, the text itself kept as it was.
C23_NormalizerAppendsFirstMatch ==
    /\ [](qpc = "synthesize" =>
            IF BlockMatches = {}
            THEN q_normalized = q_text
            ELSE LET k == CHOOSE m \in BlockMatches : \A j \in BlockMatches : m <= j
                 IN  /\ q_normalized = q_text \o <<" ">> \o BlockExpansions[k]
                     /\ SubSeq(q_normalized, 1, Len(q_text)) = q_text
                     /\ Len(q_normalized) = Len(q_text) + 1 + Len(BlockExpansions[k]))
    /\ [][/\ q_text' = q_text
          /\ qpc # "normalize" => q_normalized' = q_normalized]_vars

\* a text two patterns match, normalized
C23_Witness ==
    /\ qpc = "synthesize"
    /\ Cardinality(BlockMatches) >= 2
    /\ q_normalized # q_text

\* C27 as stated: the text validate_response returns does not begin with a
\* candidate of the prefix table.
C27_NoLeadInLeft ==
    qpc = "returned" =>
        \A k \in DOMAIN prefixes_to_remove : ~StartsWith(q_response, prefixes_to_remove[k])

\* C26 as stated: the placeholder of _process_query is never edited after it
\* was deleted: no edit_text of an except clause is called on a placeholder
\* that line 148 has deleted.
C26_NoEditAfterDelete ==
    [][\A r \in Reqs :
          (pc[r] \in {"timeout_edit", "error_edit"} /\ pc'[r] # pc[r]) =>
              placeholder[r].state # "deleted"]_vars

\* the sender has issued /start, or was sent a greeting reply or the intro
Greeted(u) ==
    \E r \in 1..arrived :
        /\ req[r].user = u
        /\ \/ Route[req[r]] = "cmd_start"
           \/ Sent(r, greeting_response) # {}
           \/ Sent(r, greeting_with_query_intro) # {}

\* C28: a sender who has issued /start, or was sent a greeting reply or the
\* intro, is in users_started; a greeting with a question of that sender whose
\* handling begins afterwards goes straight to the placeholder send, and the
\* intro is only ever sent by a request waiting at line 115, which a request
\* reaches only when its handling begins: such a request is never sent the
\* intro.
C28_NoIntroOnceGreeted ==
    /\ [](\A u \in Users : Greeted(u) => u \in users_started)
    /\ [][\A r \in Reqs :
            /\ (pc[r] = "idle" /\ IsGreetingQuestion(r)' /\ Greeted(req'[r].user)) =>
                   pc'[r] = "ph_send"
            /\ Sent(r, greeting_with_query_intro)' # Sent(r, greeting_with_query_intro) =>
                   pc[r] = "intro_send"
            /\ (pc'[r] = "intro_send" /\ pc[r] # "intro_send") => pc[r] = "idle"]_vars

\* a greeting with a question answered without intro, its sender having
\* issued /start before, the welcome message not yet delivered
C28_Witness ==
    \E r1, r2 \in Reqs :
        /\ r1 < r2 /\ r2 <= arrived
        /\ Route[req[r1]] = "cmd_start"
        /\ pc[r1] = "welcome_send"
        /\ IsGreetingQuestion(r2)
        /\ req[r1].user = req[r2].user
        /\ pc[r2] = "done"
        /\ Answers(r2) # {}
        /\ Sent(r2, greeting_with_query_intro) = {}

\* C25 as stated: both sub-retrievers are built with the configured top-K, and
\* the postprocessor lets through exactly the retrieved nodes whose score is
\* not below the configured cutoff SIMILARITY_CUTOFF.
C25_ConfiguredCutoffApplied ==
    /\ vector_top_k = SIMILARITY_TOP_K
    /\ bm25_top_k = SIMILARITY_TOP_K
    /\ rpc = "postprocessed" =>
           context_nodes = PostprocessNodes(retrieved, SIMILARITY_CUTOFF)

\* C24: every call of classify_message returns, and returns the pair of the
\* match of the greeting patterns and the match of the question patterns on
\* the text, each computed without regard to the other; the empty text and a
\* text of emoji only give (FALSE, FALSE).
C24_ClassifyIndependent ==
    /\ [](c_result # NotClassified =>
            /\ c_result = <<is_greeting(c_text), is_question(c_text)>>
            /\ c_text \in { <<>>, <<"©", "®">> } => c_result = <<FALSE, FALSE>>)
    /\ [][/\ cpc = "is_greeting" => (c_greet' = is_greeting(c_text) /\ c_quest' = c_quest)
          /\ cpc = "is_question" => (c_quest' = is_question(c_text) /\ c_greet' = c_greet)
          /\ cpc = "return" => c_result' = <<c_greet, c_quest>>]_vars
    /\ (cpc # "idle") ~> (cpc = "idle" /\ c_result # NotClassified)

\* all four pairs have been returned, the last one for the empty text
C24_Witness ==
    /\ cpc = "idle"
    /\ c_seen = { <<TRUE, TRUE>>, <<TRUE, FALSE>>, <<FALSE, TRUE>>, <<FALSE, FALSE>> }
    /\ c_text = <<>>
    /\ c_result = <<FALSE, FALSE>>

====
